---------------------------- MODULE Spec2Model ----------------------------
(***************************************************************************)
(* MlxVadSRT: segment-to-subtitle assembly (core/transcribe.py), the       *)
(* concurrent batch translation coordinator (core/translate.py), the       *)
(* subtitle file writer and reader and the timestamp format                *)
(* (core/utils.py), and the task pipeline (core/pipeline.py) with the      *)
(* embedding stage (core/embed.py).                                        *)
(*                                                                         *)
(* Strings are modelled as non-empty sequences of lines; a line is a pair  *)
(* <<kind, n>>.  "\n".join is concatenation of line sequences and          *)
(* str.split("\n", 2) cuts off the first two lines.  The empty string is   *)
(* the single empty line.                                                  *)
(***************************************************************************)
EXTENDS Integers, Sequences, FiniteSets, TLC

\* ------------------------------------------------------------------ bounds

\* Longest cue list handed to translate_srt_entries.
MaxEntries == 3
\* TRANSLATE_BATCH_SIZE ranges over 1..MaxBatchSize (50 in the configuration).
MaxBatchSize == 2
\* TRANSLATE_MAX_WORKERS ranges over 1..MaxWorkers.
MaxWorkers == 2
\* TRANSLATE_MAX_RETRIES is checked at this value (5 in the configuration).
MaxRetries == 2
\* Longest list of speech segments the detector returns.
MaxSegments == 2
\* Most sub-results the transcription of one segment returns.
MaxSubResults == 2
\* Longest cue list written to a subtitle file and read back.
MaxCues == 2
\* Most characters in the text of a cue written to a subtitle file.
MaxTextLen == 3
\* format_timestamp is called for the times from a base up to this many
\* milliseconds after it.
MaxOffsetMs == 999
\* Most elements in the JSON array handed to _strip_markdown_code_block.
MaxElements == 2

\* ------------------------------------------------------------- translation

VARIABLES
    srt_entries,      \* argument of translate_srt_entries
    batch_size,       \* TRANSLATE_BATCH_SIZE of this run
    max_workers,      \* TRANSLATE_MAX_WORKERS of this run
    pc,               \* position of the coordinator
    headers,          \* translate_srt_entries: headers
    texts,            \* translate_srt_entries: texts
    total_batches,    \* ctx.total_batches
    workers,          \* pool size
    task,             \* per batch_num: the _translate_single_batch invocation
    progress_lock,    \* 0 when free, else the batch_num holding it
    progress_counter, \* ctx.progress_counter[0]
    progress_log,     \* the "<completed>/<total>" lines printed, in order
    batch_results,    \* dict batch_num -> list, as <<batch_num, list>> in insertion order
    output,           \* return value of translate_srt_entries
    saved_file,       \* content written by _translate_and_save, NotSaved before
    attempt_failed    \* some translation attempt failed during this run

\* ----------------------------------------------------------- transcription

VARIABLES
    speech_timestamps, \* argument of _transcribe_segments: [start, end] in samples
    tr_pc,             \* position in _transcribe_segments
    seg_i,             \* segments the for loop is done with (the loop's i)
    counter,           \* next cue index
    entries,           \* _transcribe_segments: srt_entries
    entry_segment,     \* for each entry, the number of the segment it comes from
    remaining,         \* sub-results of the current segment still to be processed
    prev_start,        \* <<start>> of the previous sub-result of the segment, or <<>>
    starts_ordered,    \* the sub-results seen so far were ordered by start
    some_discarded,    \* a sub-result has been discarded
    on_scenario,       \* the run so far is the one of ScenarioSegments/ScenarioResults
    calls,             \* segment numbers handed to mlx_whisper.transcribe, in order
    progress,          \* the "<i + 1>/<total>" progress lines printed, in order
    near_silent,       \* per segment: the peak of its chunk of wav is below 1e-6
    denoised,          \* wav was read from the extracted vocals
    peak,              \* peak amplitude of the audible chunks of wav, in thousandths
    handed,            \* peak of each chunk handed to mlx_whisper.transcribe, in order
    original_srt       \* the entries _save_srt wrote after the loop, NotSaved before

\* ------------------------------------------------------ subtitle file, time

VARIABLES
    cues,              \* the cue list handed to _save_srt, each entry as its characters
    file_content,      \* characters of the written file, <<"none">> before the write
    parsed,            \* return value of _parse_srt_file: <<"unread">>, <<"None">> or <<list>>
    seconds_ms,        \* argument of format_timestamp, in whole milliseconds
    timestamp,         \* <<fields, text>> returned by format_timestamp, <<>> before the call
    json_text,         \* characters of the JSON array the response carries
    fence,             \* how the response wraps it: <<>> or [tag, break, closing]
    message_content,   \* characters of the message content of the response
    stripped           \* results of _strip_markdown_code_block: on the content, on its result

\* ---------------------------------------------------------------- pipeline

VARIABLES
    params,            \* TaskParams handed to run_task
    p_pc,              \* position of run_task
    task_result,       \* run_task: result, the TaskResult
    disk,              \* the files on disk: <<absolute path, content>>
    disk0,             \* the files on disk when run_task was called
    started,           \* the stages run_task has started
    run                \* locals of run_task and of the stage it is in, and its history

tvars == <<srt_entries, batch_size, max_workers, pc, headers, texts,
           total_batches, workers, task, progress_lock, progress_counter,
           progress_log, batch_results, output, saved_file, attempt_failed>>

svars == <<speech_timestamps, tr_pc, seg_i, counter, entries, entry_segment,
           remaining, prev_start, starts_ordered, some_discarded, on_scenario,
           calls, progress, near_silent, denoised, peak, handed, original_srt>>

fvars == <<cues, file_content, parsed>>

mvars == <<seconds_ms, timestamp, json_text, fence, message_content, stripped>>

pvars == <<params, p_pc, task_result, disk, disk0, started, run>>

xvars == <<fvars, mvars, pvars>>

vars == <<tvars, svars, xvars>>

\* No subtitle file has been written: a list that is no list of entries.
NotSaved == << <<"none">> >>

Min(a, b) == IF a < b THEN a ELSE b

Max(a, b) == IF a > b THEN a ELSE b

\* math.ceil(n / d) for n >= 0, d >= 1
CeilDiv(n, d) == (n + d - 1) \div d

EmptyString == << <<"", 0>> >>

\* The i-th cue of the input: index line, time-range line and a text of one
\* line, of two lines, or no text line at all (as a parsed file may hold).
EntryAt(i) ==
    LET hdr == << <<"index", i>>, <<"time", i>> >>
    IN  CASE i % 3 = 1 -> hdr \o << <<"text", i>> >>
          [] i % 3 = 2 -> hdr \o << <<"text", i>>, <<"more", i>> >>
          [] OTHER     -> hdr

\* entry.split("\n", 2)
SplitEntry(entry) ==
    IF Len(entry) <= 2
    THEN [k \in 1..Len(entry) |-> <<entry[k]>>]
    ELSE << <<entry[1]>>, <<entry[2]>>, SubSeq(entry, 3, Len(entry)) >>

RECURSIVE JoinLines(_)
\* "\n".join(parts)
JoinLines(parts) ==
    IF parts = <<>> THEN EmptyString
    ELSE IF Len(parts) = 1 THEN parts[1]
    ELSE parts[1] \o JoinLines(Tail(parts))

\* "\n".join(parts[:1]): the time-range line is taken for text.
HeaderOf_IndexLineOnly(entry) ==
    LET parts == SplitEntry(entry)
    IN  JoinLines(SubSeq(parts, 1, Min(1, Len(parts))))

\* "\n".join(parts[:2])
HeaderOf(entry) ==
    LET parts == SplitEntry(entry)
    IN  JoinLines(SubSeq(parts, 1, Min(2, Len(parts))))

\* parts[2] if len(parts) > 2 else ""
TextOf(entry) ==
    LET parts == SplitEntry(entry)
    IN  IF Len(parts) > 2 THEN parts[3] ELSE EmptyString

\* texts[batch_idx: batch_idx + TRANSLATE_BATCH_SIZE], batch_num = batch_idx // B + 1
BatchOf(ts, batch_num, B) ==
    SubSeq(ts, (batch_num - 1) * B + 1, Min(batch_num * B, Len(ts)))

\* What the translation service sends back for one request.
Outcomes == {"array_ok", "array_short", "array_long", "non_array", "error"}

\* The same, and an array of the batch's length that holds a null.
Responses == Outcomes \cup {"array_nonstring"}

\* A JSON null, as json.loads gives it (None): an array element that is no
\* string.
JsonNull == << <<"null", 0>> >>

IsString(element) == element # JsonNull

\* The translation the service gives for the j-th text of batch batch_num.
TranslationOf(batch_num, j, B) == << <<"translated", (batch_num - 1) * B + j>> >>

\* The parsed content of a response that is an array.
ResponseArray(outcome, batch_num, batch, B) ==
    LET full == [j \in 1..Len(batch) |-> TranslationOf(batch_num, j, B)]
    IN  CASE outcome = "array_ok"    -> full
          [] outcome = "array_nonstring" -> [full EXCEPT ![1] = JsonNull]
          [] outcome = "array_short" -> SubSeq(full, 1, Len(batch) - 1)
          [] outcome = "array_long"  -> full \o << << <<"extra", batch_num>> >> >>
          [] OTHER                   -> <<>>

\* translate_batch: the parsed list, or an exception (HTTP error, timeout,
\* invalid JSON, missing choices, non-array content).
TranslateBatchRaises(outcome) == outcome \in {"non_array", "error"}

\* _pad_or_truncate without the extend: a short response stays short.
PadOrTruncate_NoPad(translated, batch) ==
    SubSeq(translated, 1, Min(Len(translated), Len(batch)))

\* _pad_or_truncate padding with batch[:missing] instead of batch[len(translated):].
PadOrTruncate_PadFromHead(translated, batch) ==
    LET padded == IF Len(translated) < Len(batch)
                  THEN translated \o SubSeq(batch, 1, Len(batch) - Len(translated))
                  ELSE translated
    IN  SubSeq(padded, 1, Len(batch))

\* _pad_or_truncate
PadOrTruncate(translated, batch) ==
    LET padded == IF Len(translated) < Len(batch)
                  THEN translated \o SubSeq(batch, Len(translated) + 1, Len(batch))
                  ELSE translated
    IN  SubSeq(padded, 1, Len(batch))

TRANSLATE_MAX_RETRIES == MaxRetries

\* The service's answers to the requests of one batch, one per possible
\* attempt.  No request follows a correct array, so the answers after one
\* are never asked for and are fixed.
AnswerPatterns ==
    {answers \in [1..TRANSLATE_MAX_RETRIES -> Outcomes] :
        \A k \in 1..TRANSLATE_MAX_RETRIES :
            answers[k] = "array_ok" =>
                \A j \in k..TRANSLATE_MAX_RETRIES : answers[j] = "array_ok"}

\* A submitted call of _translate_single_batch: its position, its locals
\* (attempt, translated, got_result, success), the requests issued and the
\* delays taken, and whether every attempt returned an array of the wrong
\* length, with the last array obtained; trace is the sequence of the answers
\* received and the delays taken, kept when the call is followed step by
\* step.  The fields nothing reads any more are cleared when the worker
\* enters the with statement.  sequential is what the sequential coordinator
\* appends to translated_texts for the batch on the same answers, kept until
\* the future is collected.
IdleTask == [pc |-> "queued", attempt |-> 0, translated |-> <<>>,
             got_result |-> FALSE, success |-> FALSE, requests |-> 0,
             sleeps |-> 0, malformed_only |-> TRUE, last_response |-> <<>>,
             trace |-> <<>>, sequential |-> <<>>]

\* A future whose result as_completed has handed over.
CollectedTask == [IdleTask EXCEPT !.pc = "collected"]

\* _strip_markdown_code_block has not been called.
StripIdle ==
    /\ json_text = <<>>
    /\ fence = <<>>
    /\ message_content = <<>>
    /\ stripped = <<>>

\* Neither _save_srt / _parse_srt_file nor format_timestamp has been called.
UtilsIdle ==
    /\ cues = <<>>
    /\ file_content = <<"none">>
    /\ parsed = <<"unread">>
    /\ seconds_ms = 0
    /\ timestamp = <<>>
    /\ StripIdle

\* run_task has not been called.
PipelineIdle ==
    /\ params = <<>>
    /\ p_pc = "idle"
    /\ task_result = <<>>
    /\ disk = {}
    /\ disk0 = {}
    /\ started = {}
    /\ run = <<>>

\* _transcribe_segments is not running.
TranscribeIdle ==
    /\ speech_timestamps = <<>>
    /\ tr_pc = "idle"
    /\ seg_i = 0
    /\ counter = 1
    /\ entries = <<>>
    /\ entry_segment = <<>>
    /\ remaining = 0
    /\ prev_start = <<>>
    /\ starts_ordered = TRUE
    /\ some_discarded = FALSE
    /\ on_scenario = FALSE
    /\ calls = <<>>
    /\ progress = <<>>
    /\ near_silent = <<>>
    /\ denoised = FALSE
    /\ peak = 0
    /\ handed = <<>>
    /\ original_srt = NotSaved

InitTranslate ==
    /\ \E n \in 0..MaxEntries : srt_entries = [i \in 1..n |-> EntryAt(i)]
    /\ batch_size \in 1..MaxBatchSize
    /\ max_workers \in 1..MaxWorkers
    /\ pc = "call"
    /\ headers = <<>>
    /\ texts = <<>>
    /\ total_batches = 0
    /\ workers = 0
    /\ task = <<>>
    /\ progress_lock = 0
    /\ progress_counter = 0
    /\ progress_log = <<>>
    /\ batch_results = <<>>
    /\ output = <<>>
    /\ saved_file = NotSaved
    /\ attempt_failed = FALSE
    /\ TranscribeIdle
    /\ UtilsIdle
    /\ PipelineIdle

\* translate_srt_entries up to the end of the submit loop: split the cues,
\* size the pool (ThreadPoolExecutor rejects max_workers = 0 with
\* ValueError) and submit every batch.
Submit ==
    /\ pc = "call"
    /\ headers' = [i \in 1..Len(srt_entries) |-> HeaderOf(srt_entries[i])]
    /\ texts' = [i \in 1..Len(srt_entries) |-> TextOf(srt_entries[i])]
    /\ total_batches' = CeilDiv(Len(srt_entries), batch_size)
    /\ workers' = Min(max_workers, total_batches')
    /\ IF workers' <= 0
       THEN /\ pc' = "raised"
            /\ UNCHANGED task
       ELSE /\ pc' = "pool"
            /\ task' = [b \in 1..total_batches' |->
                          [IdleTask EXCEPT !.translated = BatchOf(texts', b, batch_size)]]
    /\ UNCHANGED <<srt_entries, batch_size, max_workers, progress_lock,
                   progress_counter, progress_log, batch_results, output,
                   saved_file, attempt_failed>>
    /\ UNCHANGED <<svars, xvars>>

Active(b) == task[b].pc \in {"request", "lock", "locked"}

\* A thread is found for every queued batch, however many are running.
StartBatch_NoPoolLimit(b) ==
    /\ pc = "pool"
    /\ b \in DOMAIN task
    /\ task[b].pc = "queued"
    /\ \A c \in 1..(b - 1) : task[c].pc # "queued"
    /\ task' = [task EXCEPT ![b].pc = "request"]
    /\ UNCHANGED <<srt_entries, batch_size, max_workers, pc, headers, texts,
                   total_batches, workers, progress_lock, progress_counter,
                   progress_log, batch_results, output, saved_file, attempt_failed>>
    /\ UNCHANGED <<svars, xvars>>

\* A pool thread takes the oldest queued batch (the work queue is FIFO).
StartBatch(b) ==
    /\ pc = "pool"
    /\ b \in DOMAIN task
    /\ task[b].pc = "queued"
    /\ \A c \in 1..(b - 1) : task[c].pc # "queued"
    /\ Cardinality({c \in DOMAIN task : Active(c)}) < workers
    /\ task' = [task EXCEPT ![b].pc = "request"]
    /\ UNCHANGED <<srt_entries, batch_size, max_workers, pc, headers, texts,
                   total_batches, workers, progress_lock, progress_counter,
                   progress_log, batch_results, output, saved_file, attempt_failed>>
    /\ UNCHANGED <<svars, xvars>>

\* Every batch without a successful attempt returns its original texts.
AfterLoop_AlwaysOriginal(t, batch) ==
    IF t.success THEN t.translated ELSE batch

\* Lines 348-360: what the batch returns once the retry loop has ended.
AfterLoop(t, batch) ==
    IF t.success THEN t.translated
    ELSE IF t.got_result /\ Len(t.translated) # Len(batch)
         THEN PadOrTruncate(t.translated, batch)
         ELSE IF ~t.got_result THEN batch ELSE t.translated

\* The sequential translate_srt_entries after its retry loop, which is the
\* loop of _translate_single_batch without got_result: what it appends to
\* translated_texts for the batch.
SequentialAfterLoop(t, batch) ==
    IF ~t.success /\ Len(t.translated) # Len(batch)
    THEN PadOrTruncate(t.translated, batch)
    ELSE t.translated

\* The body of one iteration of the retry loop (lines 325-343): the request
\* and what its outcome does to the locals.
AttemptBody(t, outcome, batch_num, batch, B) ==
    IF TranslateBatchRaises(outcome)
    THEN [t EXCEPT !.requests = @ + 1, !.malformed_only = FALSE]
    ELSE LET result == ResponseArray(outcome, batch_num, batch, B)
         IN  [t EXCEPT !.requests = @ + 1,
                       !.translated = result,
                       !.last_response = result,
                       !.got_result = TRUE,
                       !.success = (Len(result) = Len(batch)),
                       !.malformed_only = @ /\ Len(result) # Len(batch)]

\* time.sleep follows every attempt, the last one too.
SleepsAfter_EveryAttempt(attempt) == TRUE

\* if attempt < TRANSLATE_MAX_RETRIES - 1: time.sleep(TRANSLATE_RETRY_DELAY)
SleepsAfter(attempt) == attempt < TRANSLATE_MAX_RETRIES - 1

RECURSIVE RetryLoop(_, _, _, _, _)
\* for attempt in range(TRANSLATE_MAX_RETRIES), from iteration t.attempt on;
\* answers[k] is the service's answer to the k-th request of the batch.
RetryLoop(t, answers, batch_num, batch, B) ==
    IF t.attempt >= TRANSLATE_MAX_RETRIES THEN [t EXCEPT !.attempt = @ - 1]
    ELSE LET t1 == AttemptBody(t, answers[t.attempt + 1], batch_num, batch, B)
         IN  IF t1.success THEN t1
             ELSE RetryLoop([t1 EXCEPT
                               !.attempt = @ + 1,
                               !.sleeps = IF SleepsAfter(t.attempt)
                                          THEN @ + 1 ELSE @],
                            answers, batch_num, batch, B)

\* _translate_single_batch up to the with statement: the retry loop with its
\* requests and delays, then the exhaustion policy.  The worker shares
\* nothing with the others here.
RunBatch(b, answers) ==
    /\ pc = "pool"
    /\ b \in DOMAIN task
    /\ task[b].pc = "request"
    /\ LET batch == BatchOf(texts, b, batch_size)
           t == RetryLoop(task[b], answers, b, batch, batch_size)
       IN  /\ task' = [task EXCEPT ![b] =
                         [t EXCEPT !.pc = "lock", !.translated = AfterLoop(t, batch),
                                   !.sequential = SequentialAfterLoop(t, batch)]]
           /\ attempt_failed' = (attempt_failed \/ t.requests > 1 \/ ~t.success)
    /\ UNCHANGED <<srt_entries, batch_size, max_workers, pc, headers, texts,
                   total_batches, workers, progress_lock, progress_counter,
                   progress_log, batch_results, output, saved_file>>
    /\ UNCHANGED <<svars, xvars>>

\* with ctx.progress_lock: count the batch and print the progress line.
AcquireLock(b) ==
    /\ pc = "pool"
    /\ b \in DOMAIN task
    /\ task[b].pc = "lock"
    /\ progress_lock = 0
    /\ progress_lock' = b
    /\ progress_counter' = progress_counter + 1
    /\ progress_log' = Append(progress_log, <<progress_counter + 1, total_batches>>)
    /\ task' = [task EXCEPT ![b] = [IdleTask EXCEPT !.pc = "locked",
                                                    !.translated = task[b].translated,
                                                    !.sequential = task[b].sequential]]
    /\ UNCHANGED <<srt_entries, batch_size, max_workers, pc, headers, texts,
                   total_batches, workers, batch_results, output, saved_file,
                   attempt_failed>>
    /\ UNCHANGED <<svars, xvars>>

\* The worker returns without leaving the with block.
ReleaseLock_KeepsLock(b) ==
    /\ pc = "pool"
    /\ b \in DOMAIN task
    /\ task[b].pc = "locked"
    /\ progress_lock = b
    /\ task' = [task EXCEPT ![b].pc = "done"]
    /\ UNCHANGED <<srt_entries, batch_size, max_workers, pc, headers, texts,
                   total_batches, workers, progress_lock, progress_counter,
                   progress_log, batch_results, output, saved_file, attempt_failed>>
    /\ UNCHANGED <<svars, xvars>>

\* Leave the with block and return translated.
ReleaseLock(b) ==
    /\ pc = "pool"
    /\ b \in DOMAIN task
    /\ task[b].pc = "locked"
    /\ progress_lock = b
    /\ progress_lock' = 0
    /\ task' = [task EXCEPT ![b].pc = "done"]
    /\ UNCHANGED <<srt_entries, batch_size, max_workers, pc, headers, texts,
                   total_batches, workers, progress_counter, progress_log,
                   batch_results, output, saved_file, attempt_failed>>
    /\ UNCHANGED <<svars, xvars>>

\* The with statement's exit is skipped when the progress line raises: the
\* lock stays with the dead worker.
WorkerException_KeepsLock(b) ==
    /\ pc = "pool"
    /\ b \in DOMAIN task
    /\ \/ task[b].pc = "locked"
       \/ task[b].pc = "lock" /\ (task[b].requests > 1 \/ ~task[b].success)
    /\ task' = [task EXCEPT ![b] = [IdleTask EXCEPT !.pc = "exception"]]
    /\ UNCHANGED <<srt_entries, batch_size, max_workers, pc, headers, texts,
                   total_batches, workers, progress_lock, progress_counter,
                   progress_log, batch_results, output, saved_file, attempt_failed>>
    /\ UNCHANGED <<svars, xvars>>

\* An exception nothing in _translate_single_batch catches: print raising
\* in the except clause of the retry loop or on a warning after it (some
\* attempt failed then), or on the progress line.  The future holds the
\* exception; the with statement releases the lock if the worker held it.
WorkerException(b) ==
    /\ pc = "pool"
    /\ b \in DOMAIN task
    /\ \/ task[b].pc = "locked"
       \/ task[b].pc = "lock" /\ (task[b].requests > 1 \/ ~task[b].success)
    /\ progress_lock' = IF progress_lock = b THEN 0 ELSE progress_lock
    /\ task' = [task EXCEPT ![b] = [IdleTask EXCEPT !.pc = "exception"]]
    /\ UNCHANGED <<srt_entries, batch_size, max_workers, pc, headers, texts,
                   total_batches, workers, progress_counter, progress_log,
                   batch_results, output, saved_file, attempt_failed>>
    /\ UNCHANGED <<svars, xvars>>

Collected == {batch_results[k][1] : k \in DOMAIN batch_results}

\* future.result(), or on an exception of the worker texts[start:end]
FutureResult(b) ==
    IF task[b].pc = "exception"
    THEN SubSeq(texts, (b - 1) * batch_size + 1,
                Min((b - 1) * batch_size + batch_size, Len(texts)))
    ELSE task[b].translated

\* The as_completed loop without its try/except: future.result() re-raises
\* the worker's exception out of translate_srt_entries.
Collect_Propagates(b) ==
    /\ pc = "pool"
    /\ b \in DOMAIN task
    /\ task[b].pc \in {"done", "exception"}
    /\ b \notin Collected
    /\ IF task[b].pc = "exception"
       THEN /\ pc' = "raised"
            /\ UNCHANGED <<batch_results, task>>
       ELSE /\ batch_results' = Append(batch_results, <<b, task[b].translated>>)
            /\ task' = [task EXCEPT ![b] = CollectedTask]
            /\ UNCHANGED pc
    /\ UNCHANGED <<srt_entries, batch_size, max_workers, headers, texts,
                   total_batches, workers, progress_lock, progress_counter,
                   progress_log, output, saved_file, attempt_failed>>
    /\ UNCHANGED <<svars, xvars>>

\* as_completed yields a finished future; its result goes to batch_results.
Collect(b) ==
    /\ pc = "pool"
    /\ b \in DOMAIN task
    /\ task[b].pc \in {"done", "exception"}
    /\ b \notin Collected
    /\ batch_results' = Append(batch_results, <<b, FutureResult(b)>>)
    /\ task' = [task EXCEPT ![b] = CollectedTask]
    /\ UNCHANGED <<srt_entries, batch_size, max_workers, pc, headers, texts,
                   total_batches, workers, progress_lock, progress_counter,
                   progress_log, output, saved_file, attempt_failed>>
    /\ UNCHANGED <<svars, xvars>>

\* batch_results[i]
ResultOf(results, i) ==
    results[CHOOSE k \in DOMAIN results : results[k][1] = i][2]

RECURSIVE ExtendAll(_, _, _)
\* for i in range(1, total_batches + 1): translated_texts.extend(batch_results[i])
ExtendAll(results, i, n) ==
    IF i > n THEN <<>>
    ELSE ResultOf(results, i) \o ExtendAll(results, i + 1, n)

RECURSIVE ExtendValues(_)
\* for r in batch_results.values(): translated_texts.extend(r)
ExtendValues(results) ==
    IF results = <<>> THEN <<>>
    ELSE results[1][2] \o ExtendValues(Tail(results))

\* Merging in the order the results were inserted (completion order).
MergeResults_InsertionOrder(results, n) == ExtendValues(results)

MergeResults(results, n) == ExtendAll(results, 1, n)

\* f"{text}": a string as it is, None as the word None
FormatText(text) == IF IsString(text) THEN text ELSE << <<"None", 0>> >>

\* [f"{header}\n{text}" for header, text in zip(headers, translated_texts)]
ZipEntries(hs, ts) ==
    [i \in 1..Min(Len(hs), Len(ts)) |-> hs[i] \o FormatText(ts[i])]

\* Every future has been yielded: merge in batch order and return.
Merge ==
    /\ pc = "pool"
    /\ Collected = 1..total_batches
    /\ output' = ZipEntries(headers, MergeResults(batch_results, total_batches))
    /\ pc' = "returned"
    /\ UNCHANGED <<srt_entries, batch_size, max_workers, headers, texts,
                   total_batches, workers, task, progress_lock, progress_counter,
                   progress_log, batch_results, saved_file, attempt_failed>>
    /\ UNCHANGED <<svars, xvars>>

\* _translate_and_save: _save_srt(translated, output_path)
SaveTranslated ==
    /\ pc = "returned"
    /\ saved_file' = output
    /\ pc' = "saved"
    /\ UNCHANGED <<srt_entries, batch_size, max_workers, headers, texts,
                   total_batches, workers, task, progress_lock, progress_counter,
                   progress_log, batch_results, output, attempt_failed>>
    /\ UNCHANGED <<svars, xvars>>

NextTranslate ==
    \/ Submit
    \/ \E b \in 1..MaxEntries : StartBatch(b)
    \/ \E b \in 1..MaxEntries : \E answers \in AnswerPatterns : RunBatch(b, answers)
    \/ \E b \in 1..MaxEntries : AcquireLock(b)
    \/ \E b \in 1..MaxEntries : ReleaseLock(b)
    \/ \E b \in 1..MaxEntries : WorkerException(b)
    \/ \E b \in 1..MaxEntries : Collect(b)
    \/ Merge
    \/ SaveTranslated

SpecTranslate == InitTranslate /\ [][NextTranslate]_vars

\* The calls of translate_srt_entries with the largest TRANSLATE_BATCH_SIZE.
InitPool ==
    /\ InitTranslate
    /\ batch_size = MaxBatchSize

\* The coordinator thread and every pool thread keep running while they can:
\* a request returns, fails or times out (TRANSLATE_API_TIMEOUT bounds each
\* one), a runnable thread is scheduled, a free lock is taken by one of the
\* threads waiting for it.  No print has to raise.
FairTranslate ==
    /\ InitPool
    /\ [][NextTranslate]_vars
    /\ WF_vars(Submit)
    /\ WF_vars(Merge)
    /\ \A b \in 1..MaxEntries :
          /\ WF_vars(StartBatch(b))
          /\ WF_vars(\E answers \in AnswerPatterns : RunBatch(b, answers))
          /\ WF_vars(AcquireLock(b))
          /\ WF_vars(ReleaseLock(b))
          /\ WF_vars(Collect(b))

\* ---------------------------------- one call of _translate_single_batch,
\* followed attempt by attempt: a single batch, in a pool of one thread

InitBatch ==
    /\ \E n \in 1..MaxBatchSize :
          /\ srt_entries = [i \in 1..n |-> EntryAt(i)]
          /\ batch_size = n
    /\ max_workers = 1
    /\ pc = "pool"
    /\ headers = [i \in 1..Len(srt_entries) |-> HeaderOf(srt_entries[i])]
    /\ texts = [i \in 1..Len(srt_entries) |-> TextOf(srt_entries[i])]
    /\ total_batches = 1
    /\ workers = 1
    /\ task = << [IdleTask EXCEPT !.pc = "attempt", !.translated = texts] >>
    /\ progress_lock = 0
    /\ progress_counter = 0
    /\ progress_log = <<>>
    /\ batch_results = <<>>
    /\ output = <<>>
    /\ saved_file = NotSaved
    /\ attempt_failed = FALSE
    /\ TranscribeIdle
    /\ UtilsIdle
    /\ PipelineIdle

\* One iteration of the retry loop up to the delay: the request, its outcome,
\* and the break on success.
Attempt(outcome) ==
    /\ pc = "pool"
    /\ task[1].pc = "attempt"
    /\ task[1].attempt < TRANSLATE_MAX_RETRIES
    /\ LET t == AttemptBody(task[1], outcome, 1, texts, batch_size)
           next == IF t.success THEN "ended"
                   ELSE IF SleepsAfter(t.attempt) THEN "sleep"
                   ELSE IF t.attempt + 1 < TRANSLATE_MAX_RETRIES THEN "attempt"
                   ELSE "ended"
       IN  /\ task' = [task EXCEPT ![1] =
                         [t EXCEPT !.pc = next,
                                   !.trace = Append(@, outcome),
                                   !.attempt = IF next = "attempt" THEN @ + 1
                                               ELSE @]]
           /\ attempt_failed' = (attempt_failed \/ ~t.success)
    /\ UNCHANGED <<srt_entries, batch_size, max_workers, pc, headers, texts,
                   total_batches, workers, progress_lock, progress_counter,
                   progress_log, batch_results, output, saved_file>>
    /\ UNCHANGED <<svars, xvars>>

\* time.sleep(TRANSLATE_RETRY_DELAY), then the next iteration if there is one
RetryDelay ==
    /\ pc = "pool"
    /\ task[1].pc = "sleep"
    /\ task' = [task EXCEPT ![1] =
                  [@ EXCEPT !.pc = IF task[1].attempt + 1 < TRANSLATE_MAX_RETRIES
                                   THEN "attempt" ELSE "ended",
                            !.sleeps = @ + 1,
                            !.trace = Append(@, "sleep"),
                            !.attempt = IF @ + 1 < TRANSLATE_MAX_RETRIES
                                        THEN @ + 1 ELSE @]]
    /\ UNCHANGED <<srt_entries, batch_size, max_workers, pc, headers, texts,
                   total_batches, workers, progress_lock, progress_counter,
                   progress_log, batch_results, output, saved_file, attempt_failed>>
    /\ UNCHANGED <<svars, xvars>>

\* if not success: ... (lines 348-360), up to the with statement
ExhaustionPolicy ==
    /\ pc = "pool"
    /\ task[1].pc = "ended"
    /\ task' = [task EXCEPT ![1] =
                  [@ EXCEPT !.pc = "lock", !.translated = AfterLoop(task[1], texts),
                            !.sequential = SequentialAfterLoop(task[1], texts)]]
    /\ UNCHANGED <<srt_entries, batch_size, max_workers, pc, headers, texts,
                   total_batches, workers, progress_lock, progress_counter,
                   progress_log, batch_results, output, saved_file, attempt_failed>>
    /\ UNCHANGED <<svars, xvars>>

NextBatch ==
    \/ \E outcome \in Responses : Attempt(outcome)
    \/ RetryDelay
    \/ ExhaustionPolicy
    \/ AcquireLock(1)
    \/ ReleaseLock(1)
    \/ Collect(1)
    \/ Merge

SpecBatch == InitBatch /\ [][NextBatch]_vars


\* ------------------------------------------------- translation: properties

Returned == pc \in {"returned", "saved"}

\* The index line and the time-range line of a cue.
CueHeader(entry) == SubSeq(entry, 1, 2)

\* The text lines of a cue.
CueText(entry) == SubSeq(entry, 3, Len(entry))

\* C1: for a non-empty cue list of N entries, whatever the batch size and the
\* outcomes of the attempts, translate_srt_entries returns exactly N entries.
C1_OutputLength ==
    Returned => Len(output) = Len(srt_entries)

\* C1 witness: a run over three cues in two batches with a failed attempt has
\* returned.
C1_Witness ==
    /\ pc = "returned"
    /\ Len(srt_entries) = 3
    /\ batch_size = 2
    /\ attempt_failed

\* C2: the index line and the time-range line of output[i] are those of
\* input[i], at every position i, whichever path the batch of i took.
C2_HeadersPreserved ==
    Returned =>
        \A i \in 1..Len(srt_entries) :
            /\ i <= Len(output)
            /\ CueHeader(output[i]) = CueHeader(srt_entries[i])

\* C2 witness: returned, and the text of some cue is no longer the original
\* while another cue kept its original text.
C2_Witness ==
    /\ pc = "returned"
    /\ Len(output) = Len(srt_entries)
    /\ \E i, j \in 1..Len(output) :
          /\ CueText(output[i]) # CueText(srt_entries[i])
          /\ output[j] = srt_entries[j]

\* C3 (as claimed): called with an empty cue list, translate_srt_entries
\* raises no error and, once it is past its first statement, has returned
\* the empty list; no translation request is issued.
C3_EmptyInputReturnsEmpty ==
    (srt_entries = <<>> /\ pc # "call") =>
        /\ pc # "raised"
        /\ Returned /\ output = <<>>
        /\ \A b \in DOMAIN task : task[b].requests = 0

\* The value a batch is about to return, its retry loop just ended.
LoopEnded(b) == b \in DOMAIN task /\ task[b].pc = "lock"

\* C4 (as claimed): a batch whose every attempt returned an array of the
\* wrong length returns its original texts verbatim.
C4_MalformedGivesOriginal ==
    \A b \in DOMAIN task :
        (LoopEnded(b) /\ task[b].malformed_only) =>
            task[b].translated = BatchOf(texts, b, batch_size)

\* C4 (amended): such a batch returns a list of the batch's length that
\* carries the last response's elements below the response's length and the
\* original texts from there on.
C4_MalformedPadsWithOriginal ==
    \A b \in DOMAIN task :
        (LoopEnded(b) /\ task[b].malformed_only) =>
            LET batch == BatchOf(texts, b, batch_size)
                resp == task[b].last_response
                out == task[b].translated
            IN  /\ task[b].requests = TRANSLATE_MAX_RETRIES
                /\ Len(out) = Len(batch)
                /\ \A j \in 1..Len(batch) :
                      out[j] = IF j <= Len(resp) THEN resp[j] ELSE batch[j]

\* C4 witness: a batch of two texts whose attempts all returned a
\* one-element array has ended its loop.
C4_Witness ==
    \E b \in DOMAIN task :
        /\ LoopEnded(b)
        /\ task[b].malformed_only
        /\ Len(BatchOf(texts, b, batch_size)) = 2
        /\ Len(task[b].last_response) = 1

\* C5: once an attempt has failed, translate_srt_entries never ends with an
\* error: the run is either finished, with the translated file written from
\* the returned list, or able to go on.
C5_FailuresDoNotPropagate ==
    attempt_failed =>
        /\ pc # "raised"
        /\ (pc = "saved" => (saved_file = output /\ Len(saved_file) = Len(srt_entries)))
        /\ (pc # "saved" => ENABLED NextTranslate)

\* C5 witness: the file has been written after a run in which attempts failed.
C5_Witness ==
    /\ pc = "saved"
    /\ attempt_failed
    /\ saved_file = output
    /\ Len(srt_entries) >= 2

\* The list batch_results holds under key batch_num.
StoredResult(batch_num) ==
    LET k == CHOOSE k \in DOMAIN batch_results : batch_results[k][1] = batch_num
    IN  batch_results[k][2]

\* C6: whatever the order in which the batches completed, the text at
\* position i (from 0) is element i mod B of the result of batch
\* floor(i / B) + 1, as the f-string renders it.
C6_MergedInBatchOrder ==
    Returned =>
        \A i \in 0..(Len(srt_entries) - 1) :
            /\ i + 1 <= Len(output)
            /\ CueText(output[i + 1])
                 = FormatText(StoredResult((i \div batch_size) + 1)[(i % batch_size) + 1])

\* C6 witness: returned although a later batch completed before batch 1 and
\* the two results differ.
C6_Witness ==
    /\ pc = "returned"
    /\ Len(batch_results) >= 2
    /\ batch_results[1][1] # 1
    /\ batch_results[1][2] # batch_results[2][2]

\* ----------------------------------------------------------- transcription
\* Times are counted in samples (1/SAMPLE_RATE s), the sub-results' relative
\* times included; arithmetic is exact.

SAMPLE_RATE == 16000

\* The speech-probability thresholds of the detector, in hundredths
VAD_THRESHOLD == 25

VAD_THRESHOLD_DENOISE == 35

PROGRESS_INTERVAL == 5

\* round(): to the nearest integer, halves to the even one (n >= 0, d > 0)
RoundHalfEven(n, d) ==
    LET q == n \div d
        r == n % d
    IN  IF 2 * r < d THEN q
        ELSE IF 2 * r > d THEN q + 1
        ELSE IF q % 2 = 0 THEN q ELSE q + 1

\* The minutes are not reduced modulo 60 after the hours are taken out.
format_timestamp_MinutesNotReduced(samples) ==
    LET total_ms == RoundHalfEven(samples, SAMPLE_RATE \div 1000)
        total_seconds == total_ms \div 1000
        millis == total_ms % 1000
        mins0 == total_seconds \div 60
        secs == total_seconds % 60
        hours == mins0 \div 60
    IN  <<hours, mins0, secs, millis>>

\* format_timestamp: <<hours, mins, secs, millis>> of HH:MM:SS,mmm
format_timestamp(samples) ==
    LET total_ms == RoundHalfEven(samples, SAMPLE_RATE \div 1000)
        total_seconds == total_ms \div 1000
        millis == total_ms % 1000
        mins0 == total_seconds \div 60
        secs == total_seconds % 60
        hours == mins0 \div 60
        mins == mins0 % 60
    IN  <<hours, mins, secs, millis>>

IsSpace(c) == c \in {" ", "\n"}

RECURSIVE LStrip(_)
LStrip(text) ==
    IF text # <<>> /\ IsSpace(Head(text)) THEN LStrip(Tail(text)) ELSE text

RECURSIVE RStrip(_)
RStrip(text) ==
    IF text # <<>> /\ IsSpace(text[Len(text)])
    THEN RStrip(SubSeq(text, 1, Len(text) - 1)) ELSE text

\* str.strip() on a text given as its characters
Strip(text) == RStrip(LStrip(text))

\* The scenario of the specification: two segments of one second, at 0 s and
\* at 2 s, the first transcribed to {0, 1, "Hi"}, the second to {0, 0.5, "Bye"}.
ScenarioSegments ==
    << [start |-> 0, end |-> SAMPLE_RATE],
       [start |-> 2 * SAMPLE_RATE, end |-> 3 * SAMPLE_RATE] >>

ScenarioResults ==
    << << [start |-> 0, end |-> SAMPLE_RATE, text |-> <<"H", "i">>] >>,
       << [start |-> 0, end |-> SAMPLE_RATE \div 2, text |-> <<"B", "y", "e">>] >> >>

\* Sample offsets the detector's segments begin and end at.
SampleOffsets == {0, 1607, SAMPLE_RATE, 2 * SAMPLE_RATE}

Segments == {seg \in [start : SampleOffsets, end : SampleOffsets] : seg.start < seg.end}

\* The detector's output: non-overlapping, increasing, not empty
\* (transcribe_with_vad returns before the call when it is).
SegmentLists ==
    UNION {{sl \in [1..n -> Segments] :
              \A k \in 1..(n - 1) : sl[k].end <= sl[k + 1].start} : n \in 1..MaxSegments}
      \cup {ScenarioSegments}

\* Sub-results the transcription may return for a segment: within bounds,
\* negative start, end beyond the segment, shorter than a millisecond (half
\* a second into the segment), inverted, empty, blank text.
SubResults ==
    { [start |-> 0, end |-> SAMPLE_RATE, text |-> <<"H", "i">>],
      [start |-> 0, end |-> SAMPLE_RATE \div 2, text |-> <<"B", "y", "e">>],
      [start |-> -5, end |-> 4 * SAMPLE_RATE, text |-> <<" ", "H", "i", " ">>],
      [start |-> (SAMPLE_RATE \div 2) + 3, end |-> (SAMPLE_RATE \div 2) + 6,
       text |-> <<"H", "i">>],
      [start |-> 6, end |-> 3, text |-> <<"H", "i">>],
      [start |-> 6, end |-> 6, text |-> <<"H", "i">>],
      [start |-> 0, end |-> SAMPLE_RATE, text |-> <<" ", " ">>] }

\* Peaks of a chunk that is not near-silent: half of full scale, full scale.
AudiblePeaks == {500, 1000}

\* np.max(np.abs(audio_chunk)) of the chunk of segment k, in thousandths
ChunkPeak(k) == IF near_silent[k] THEN 0 ELSE peak

\* Lines 192-201: audio_chunk goes to mlx_whisper.transcribe as it was
\* sliced from wav.
HandedChunk(chunk_peak) == chunk_peak

InitTranscribe ==
    /\ speech_timestamps \in SegmentLists
    /\ tr_pc = "segment"
    /\ seg_i = 0
    /\ counter = 1
    /\ entries = <<>>
    /\ entry_segment = <<>>
    /\ remaining = 0
    /\ prev_start = <<>>
    /\ starts_ordered = TRUE
    /\ some_discarded = FALSE
    /\ near_silent \in [1..Len(speech_timestamps) -> BOOLEAN]
    /\ denoised \in BOOLEAN
    /\ peak \in AudiblePeaks
    /\ handed = <<>>
    /\ original_srt = NotSaved
    /\ on_scenario = (speech_timestamps = ScenarioSegments
                        /\ \A k \in DOMAIN near_silent : ~near_silent[k])
    /\ calls = <<>>
    /\ progress = <<>>
    /\ srt_entries = <<>>
    /\ batch_size = 1
    /\ max_workers = 1
    /\ pc = "idle"
    /\ headers = <<>>
    /\ texts = <<>>
    /\ total_batches = 0
    /\ workers = 0
    /\ task = <<>>
    /\ progress_lock = 0
    /\ progress_counter = 0
    /\ progress_log = <<>>
    /\ batch_results = <<>>
    /\ output = <<>>
    /\ saved_file = NotSaved
    /\ attempt_failed = FALSE
    /\ UtilsIdle
    /\ PipelineIdle

\* Where the for loop stands once it is done with segment number seg_i + 1.
NextPosition == IF seg_i + 1 = Len(speech_timestamps) THEN "returned" ELSE "segment"

\* The chunk is handed to mlx_whisper.transcribe before the loop goes on.
SkipSilent_StillTranscribes ==
    /\ tr_pc = "segment"
    /\ seg_i < Len(speech_timestamps)
    /\ near_silent[seg_i + 1]
    /\ seg_i' = seg_i + 1
    /\ tr_pc' = NextPosition
    /\ calls' = Append(calls, seg_i + 1)
    /\ handed' = Append(handed, HandedChunk(ChunkPeak(seg_i + 1)))
    /\ UNCHANGED <<speech_timestamps, counter, entries, entry_segment, remaining,
                   prev_start, starts_ordered, some_discarded, on_scenario,
                   progress, near_silent, denoised, peak, original_srt>>
    /\ UNCHANGED <<tvars, xvars>>

\* Lines 192-198: the chunk's peak is below 1e-6: continue.
SkipSilent ==
    /\ tr_pc = "segment"
    /\ seg_i < Len(speech_timestamps)
    /\ near_silent[seg_i + 1]
    /\ seg_i' = seg_i + 1
    /\ tr_pc' = NextPosition
    /\ UNCHANGED <<speech_timestamps, counter, entries, entry_segment, remaining,
                   prev_start, starts_ordered, some_discarded, on_scenario, calls, handed,
                   progress, near_silent, denoised, peak, original_srt>>
    /\ UNCHANGED <<tvars, xvars>>

\* Lines 200-207: mlx_whisper.transcribe on the chunk; it returns n sub-results.
Transcribe(n) ==
    /\ tr_pc = "segment"
    /\ seg_i < Len(speech_timestamps)
    /\ ~near_silent[seg_i + 1]
    /\ calls' = Append(calls, seg_i + 1)
    /\ handed' = Append(handed, HandedChunk(ChunkPeak(seg_i + 1)))
    /\ remaining' = n
    /\ tr_pc' = "chunks"
    /\ on_scenario' = (on_scenario /\ n = Len(ScenarioResults[seg_i + 1]))
    /\ UNCHANGED <<speech_timestamps, seg_i, counter, entries, entry_segment,
                   prev_start, starts_ordered, some_discarded, progress,
                   near_silent, denoised, peak, original_srt>>
    /\ UNCHANGED <<tvars, xvars>>

\* max(0.0, chunk_segment["start"])
ClipStart(rel_start) == Max(0, rel_start)

\* The end taken as reported, not clipped to the chunk.
ClipEnd_Unclipped(rel_end, chunk_duration) == rel_end

\* min(chunk_segment["end"], chunk_duration)
ClipEnd(rel_end, chunk_duration) == Min(rel_end, chunk_duration)

\* The segment's offset left out: times stay relative to the segment.
AbsoluteTime_Relative(start_sec, rel) == rel

\* start_sec + seg_start, start_sec + seg_end
AbsoluteTime(start_sec, rel) == start_sec + rel

\* The entry numbered with the segment loop's i + 1 instead of counter.
MakeEntry_LoopIndex(index, s_start, s_end, text) ==
    << seg_i + 1, <<format_timestamp(s_start), format_timestamp(s_end)>>, text >>

\* The entry "{counter}\n{start} --> {end}\n{text}": its three lines.
MakeEntry(index, s_start, s_end, text) ==
    << index, <<format_timestamp(s_start), format_timestamp(s_end)>>, text >>

\* counter += 1
NextCounter(c) == c + 1

\* Lines 209-229: one iteration of the loop over the sub-results.
ChunkSegment(sub) ==
    /\ tr_pc = "chunks"
    /\ remaining > 0
    /\ remaining' = remaining - 1
    /\ prev_start' = <<sub.start>>
    /\ on_scenario' = (on_scenario /\
                         sub = ScenarioResults[seg_i + 1]
                                 [Len(ScenarioResults[seg_i + 1]) - remaining + 1])
    /\ starts_ordered' = (starts_ordered /\
                            (prev_start = <<>> \/ prev_start[1] <= sub.start))
    /\ LET segment == speech_timestamps[seg_i + 1]
           start_sec == segment.start
           chunk_duration == segment.end - segment.start
           text == Strip(sub.text)
           seg_start == ClipStart(sub.start)
           seg_end == ClipEnd(sub.end, chunk_duration)
       IN  IF text = <<>> \/ seg_start >= seg_end
           THEN /\ some_discarded' = TRUE
                /\ UNCHANGED <<entries, entry_segment, counter>>
           ELSE /\ UNCHANGED some_discarded
                /\ entries' = Append(entries,
                                     MakeEntry(counter,
                                               AbsoluteTime(start_sec, seg_start),
                                               AbsoluteTime(start_sec, seg_end),
                                               text))
                /\ entry_segment' = Append(entry_segment, seg_i + 1)
                /\ counter' = NextCounter(counter)
    /\ UNCHANGED <<speech_timestamps, tr_pc, seg_i, calls, handed, progress, near_silent, denoised, peak,
                   original_srt>>
    /\ UNCHANGED <<tvars, xvars>>

\* Lines 231-232: the progress line, and on to the next segment.
EndSegment ==
    /\ tr_pc = "chunks"
    /\ remaining = 0
    /\ progress' = IF (seg_i + 1) % PROGRESS_INTERVAL = 0
                      \/ seg_i = Len(speech_timestamps) - 1
                   THEN Append(progress, <<seg_i + 1, Len(speech_timestamps)>>)
                   ELSE progress
    /\ seg_i' = seg_i + 1
    /\ tr_pc' = NextPosition
    /\ prev_start' = <<>>
    /\ UNCHANGED <<speech_timestamps, counter, entries, entry_segment, remaining,
                   starts_ordered, some_discarded, on_scenario, calls, handed,
                   near_silent, denoised, peak, original_srt>>
    /\ UNCHANGED <<tvars, xvars>>

\* mlx_whisper.transcribe raises on the chunk: nothing in
\* _transcribe_segments or transcribe_with_vad catches it (the finally clause
\* only removes the vocals), and srt_entries is a local that goes with it.
TranscribeFails ==
    /\ tr_pc = "segment"
    /\ seg_i < Len(speech_timestamps)
    /\ ~near_silent[seg_i + 1]
    /\ calls' = Append(calls, seg_i + 1)
    /\ handed' = Append(handed, HandedChunk(ChunkPeak(seg_i + 1)))
    /\ tr_pc' = "raised"
    /\ on_scenario' = FALSE
    /\ UNCHANGED <<speech_timestamps, seg_i, counter, entries, entry_segment,
                   remaining, prev_start, starts_ordered, some_discarded, progress,
                   near_silent, denoised, peak, original_srt>>
    /\ UNCHANGED <<tvars, xvars>>

\* transcribe_with_vad after the loop: return None without cues, else
\* _save_and_translate, whose _save_srt writes the entries.
SaveEntries ==
    /\ tr_pc = "returned"
    /\ IF entries = <<>>
       THEN /\ tr_pc' = "no_cues"
            /\ UNCHANGED original_srt
       ELSE /\ tr_pc' = "saved"
            /\ original_srt' = entries
    /\ UNCHANGED <<speech_timestamps, seg_i, counter, entries, entry_segment,
                   remaining, prev_start, starts_ordered, some_discarded,
                   on_scenario, calls, handed, progress, near_silent, denoised, peak>>
    /\ UNCHANGED <<tvars, xvars>>

NextTranscribe ==
    \/ SkipSilent
    \/ \E n \in 0..MaxSubResults : Transcribe(n)
    \/ \E sub \in SubResults : ChunkSegment(sub)
    \/ EndSegment
    \/ TranscribeFails
    \/ SaveEntries

SpecTranscribe == InitTranscribe /\ [][NextTranscribe]_vars

\* ----------------------------------------------- transcription: properties

\* The time a rendered timestamp HH:MM:SS,mmm denotes, in milliseconds.
Millis(ts) == ((ts[1] * 60 + ts[2]) * 60 + ts[3]) * 1000 + ts[4]

CueStartMs(k) == Millis(entries[k][2][1])

CueEndMs(k) == Millis(entries[k][2][2])

\* C7 (as claimed): every cue lies within its segment and is not empty:
\* segment.start <= cue.startSec < cue.endSec <= segment.end, the cue's times
\* being those of its time-range line (sides scaled to samples * ms).
C7_CueWithinSegment ==
    \A k \in DOMAIN entries :
        LET segment == speech_timestamps[entry_segment[k]]
        IN  /\ segment.start * 1000 <= CueStartMs(k) * SAMPLE_RATE
            /\ CueStartMs(k) < CueEndMs(k)
            /\ CueEndMs(k) * SAMPLE_RATE <= segment.end * 1000

\* C8: the k-th cue produced carries index k, however many segments were
\* skipped and sub-results discarded; counter is the next index.
C8_IndexIsPosition ==
    /\ \A k \in DOMAIN entries : entries[k][1] = k
    /\ counter = Len(entries) + 1

\* C8 witness: the list is returned with cues of two segments, a sub-result
\* having been discarded on the way.
C8_Witness ==
    /\ tr_pc = "returned"
    /\ Len(entries) >= 2
    /\ some_discarded
    /\ entry_segment[1] # entry_segment[Len(entries)]

\* C9: with sub-results ordered by start within each segment (the segments
\* are non-overlapping and increasing), no cue starts before the one before
\* it, and no cue of a later segment starts before the end of a cue of an
\* earlier segment.
C9_TimeOrdered ==
    starts_ordered =>
        \A j, k \in DOMAIN entries :
            j < k =>
                /\ CueStartMs(j) <= CueStartMs(k)
                /\ entry_segment[j] < entry_segment[k] => CueEndMs(j) <= CueStartMs(k)

\* C9 witness: ordered sub-results gave two cues of one segment with
\* different starts and a cue of a later segment.
C9_Witness ==
    /\ starts_ordered
    /\ \E j, k, l \in DOMAIN entries :
          /\ j < k /\ k < l
          /\ entry_segment[j] = entry_segment[k]
          /\ CueStartMs(j) < CueStartMs(k)
          /\ entry_segment[k] < entry_segment[l]

\* C10: segments [(0,16000),(32000,48000)] at 16 kHz with sub-results
\* {0,1,"Hi"} and {0,0.5,"Bye"} give exactly cue 1 from 00:00:00,000 to
\* 00:00:01,000 "Hi" and cue 2 from 00:00:02,000 to 00:00:02,500 "Bye".
C10_Scenario ==
    (on_scenario /\ tr_pc = "returned") =>
        entries = << << 1, << <<0, 0, 0, 0>>, <<0, 0, 1, 0>> >>, <<"H", "i">> >>,
                     << 2, << <<0, 0, 2, 0>>, <<0, 0, 2, 500>> >>, <<"B", "y", "e">> >> >>

\* C10 witness: the scenario's run has returned.
C10_Witness ==
    /\ on_scenario
    /\ tr_pc = "returned"
    /\ Len(calls) = 2


\* ------------------------------------------- subtitle file: write and read

\* The characters cue texts are made of: a letter, a space, a line break.
TextChars == {"a", " ", "\n"}

RECURSIVE SplitLines(_, _)
\* text.split("\n"), cur being the line collected so far
SplitLines(text, cur) ==
    IF text = <<>> THEN <<cur>>
    ELSE IF Head(text) = "\n" THEN <<cur>> \o SplitLines(Tail(text), <<>>)
    ELSE SplitLines(Tail(text), Append(cur, Head(text)))

\* Text line(s) of a block: one or more lines, none of them blank.
IsCueText(text) ==
    /\ text # <<>>
    /\ \A k \in DOMAIN SplitLines(text, <<>>) :
           \E j \in DOMAIN SplitLines(text, <<>>)[k] :
               ~IsSpace(SplitLines(text, <<>>)[k][j])

CueTexts ==
    {text \in UNION {[1..n -> TextChars] : n \in 1..MaxTextLen} : IsCueText(text)}

IndexChars == <<"1", "2", "3", "4">>

\* A block of the file format: decimal index line, time-range line ("T"
\* stands for the whole "HH:MM:SS,mmm --> HH:MM:SS,mmm"), text line(s).
CueBlock(i, text) == <<IndexChars[i], "\n", "T", "\n">> \o text

CueLists ==
    UNION {[1..n -> CueTexts] : n \in 0..MaxCues}

InitSrtFile ==
    /\ \E ts \in CueLists : cues = [i \in DOMAIN ts |-> CueBlock(i, ts[i])]
    /\ file_content = <<"none">>
    /\ parsed = <<"unread">>
    /\ seconds_ms = 0
    /\ timestamp = <<>>
    /\ StripIdle
    /\ pc = "idle"
    /\ srt_entries = <<>>
    /\ batch_size = 1
    /\ max_workers = 1
    /\ headers = <<>>
    /\ texts = <<>>
    /\ total_batches = 0
    /\ workers = 0
    /\ task = <<>>
    /\ progress_lock = 0
    /\ progress_counter = 0
    /\ progress_log = <<>>
    /\ batch_results = <<>>
    /\ output = <<>>
    /\ saved_file = NotSaved
    /\ attempt_failed = FALSE
    /\ TranscribeIdle
    /\ PipelineIdle

RECURSIVE JoinEntries(_, _)
\* sep.join(es)
JoinEntries(es, sep) ==
    IF es = <<>> THEN <<>>
    ELSE IF Len(es) = 1 THEN es[1]
    ELSE es[1] \o sep \o JoinEntries(Tail(es), sep)

\* The entries are joined by a single line break: no blank line between blocks.
WriteSrt_SingleLineBreak(es) == JoinEntries(es, <<"\n">>) \o <<"\n">>

\* f.write("\n\n".join(srt_entries) + "\n")
WriteSrt(es) == JoinEntries(es, <<"\n", "\n">>) \o <<"\n">>

\* _save_srt
SaveSrt ==
    /\ file_content = <<"none">>
    /\ parsed = <<"unread">>
    /\ file_content' = WriteSrt(cues)
    /\ UNCHANGED <<cues, parsed, mvars, pvars, tvars, svars>>

RECURSIVE SplitBlocks(_, _)
\* content.split("\n\n"), cur being the block collected so far
SplitBlocks(content, cur) ==
    IF content = <<>> THEN <<cur>>
    ELSE IF Len(content) >= 2 /\ content[1] = "\n" /\ content[2] = "\n"
    THEN <<cur>> \o SplitBlocks(SubSeq(content, 3, Len(content)), <<>>)
    ELSE SplitBlocks(Tail(content), Append(cur, Head(content)))

NonEmpty(text) == text # <<>>

\* [entry.strip() for entry in content.split("\n\n") if entry.strip()]
StrippedBlocks(content) ==
    LET blocks == SplitBlocks(content, <<>>)
    IN  SelectSeq([k \in DOMAIN blocks |-> Strip(blocks[k])], NonEmpty)

\* _parse_srt_file: <<"None">> for a missing or empty file, else <<entries>>
ParseSrt(stored) ==
    IF stored = <<"none">> THEN <<"None">>
    ELSE LET content == Strip(stored)
         IN  IF content = <<>> THEN <<"None">>
             ELSE IF StrippedBlocks(content) = <<>> THEN <<"None">>
             ELSE <<StrippedBlocks(content)>>

\* _parse_srt_file
ParseSrtFile ==
    /\ parsed = <<"unread">>
    /\ parsed' = ParseSrt(file_content)
    /\ UNCHANGED <<cues, file_content, mvars, pvars, tvars, svars>>

NextSrtFile ==
    \/ SaveSrt
    \/ ParseSrtFile

SpecSrtFile == InitSrtFile /\ [][NextSrtFile]_vars

\* The file has been written and read back.
ReadBack == file_content # <<"none">> /\ parsed # <<"unread">>

\* C11 (as stated): writing a well-formed cue list with _save_srt and reading
\* it back with _parse_srt_file yields exactly the same list of entries.
C11_RoundTrip ==
    ReadBack => parsed = <<cues>>

\* C11 (amended): the round trip returns exactly the list written when the
\* list is not empty and no entry begins or ends with whitespace.
C11_RoundTripStripped ==
    (ReadBack /\ cues # <<>> /\ \A k \in DOMAIN cues : Strip(cues[k]) = cues[k])
        => parsed = <<cues>>

\* Two cues, one of them with a text of two lines, were written and read back.
C11_Witness ==
    /\ ReadBack
    /\ Len(cues) = 2
    /\ \A k \in DOMAIN cues : Strip(cues[k]) = cues[k]
    /\ \E k \in DOMAIN cues : Len(SplitLines(cues[k], <<>>)) = 4
    /\ parsed = <<cues>>



\* ------------------------------------------------------- format_timestamp

DecimalDigits == <<"0", "1", "2", "3", "4", "5", "6", "7", "8", "9">>

RECURSIVE Decimal(_)
\* str(n) for n >= 0
Decimal(n) ==
    IF n < 10 THEN <<DecimalDigits[n + 1]>>
    ELSE Append(Decimal(n \div 10), DecimalDigits[(n % 10) + 1])

RECURSIVE ZeroPad(_, _)
\* f"{n:0{width}d}": zeros in front up to the width, never cut
ZeroPad(digits, width) ==
    IF Len(digits) >= width THEN digits ELSE ZeroPad(<<"0">> \o digits, width)

\* f"{hours:02d}:{mins:02d}:{secs:02d},{millis:03d}"
TimestampText(fields) ==
    ZeroPad(Decimal(fields[1]), 2) \o <<":">> \o ZeroPad(Decimal(fields[2]), 2)
        \o <<":">> \o ZeroPad(Decimal(fields[3]), 2) \o <<",">>
        \o ZeroPad(Decimal(fields[4]), 3)

\* The times format_timestamp is called for start at these, in milliseconds:
\* 0, the last second of a minute, of an hour, 1 h 1 min 1 s, and the last
\* second before 10 hours.
MsBases == {0, 59000, 3599000, 3661000, 35999000}

InitFormat ==
    /\ \E base \in MsBases : \E off \in 0..MaxOffsetMs : seconds_ms = base + off
    /\ timestamp = <<>>
    /\ StripIdle
    /\ cues = <<>>
    /\ file_content = <<"none">>
    /\ parsed = <<"unread">>
    /\ pc = "idle"
    /\ srt_entries = <<>>
    /\ batch_size = 1
    /\ max_workers = 1
    /\ headers = <<>>
    /\ texts = <<>>
    /\ total_batches = 0
    /\ workers = 0
    /\ task = <<>>
    /\ progress_lock = 0
    /\ progress_counter = 0
    /\ progress_log = <<>>
    /\ batch_results = <<>>
    /\ output = <<>>
    /\ saved_file = NotSaved
    /\ attempt_failed = FALSE
    /\ TranscribeIdle
    /\ PipelineIdle

\* format_timestamp(seconds_ms / 1000): the argument in samples is
\* seconds_ms * SAMPLE_RATE / 1000.
FormatTimestamp ==
    /\ timestamp = <<>>
    /\ LET fields == format_timestamp(seconds_ms * (SAMPLE_RATE \div 1000))
       IN  timestamp' = <<fields, TimestampText(fields)>>
    /\ UNCHANGED <<seconds_ms, json_text, fence, message_content, stripped,
                   fvars, pvars, tvars, svars>>

NextFormat == FormatTimestamp

SpecFormat == InitFormat /\ [][NextFormat]_vars

\* C12: a time of m whole milliseconds is rendered with HH = m div 3600000,
\* MM = (m div 60000) mod 60, SS = (m div 1000) mod 60, mmm = m mod 1000, so
\* MM < 60, SS < 60, mmm < 1000; 0 ms gives "00:00:00,000" and 3661500 ms
\* gives "01:01:01,500".
C12_TimestampFields ==
    timestamp # <<>> =>
        /\ timestamp[1] = << seconds_ms \div 3600000,
                             (seconds_ms \div 60000) % 60,
                             (seconds_ms \div 1000) % 60,
                             seconds_ms % 1000 >>
        /\ timestamp[1][2] < 60 /\ timestamp[1][3] < 60 /\ timestamp[1][4] < 1000
        /\ Len(timestamp[2]) = 12
        /\ seconds_ms = 0 =>
               timestamp[2] = <<"0", "0", ":", "0", "0", ":", "0", "0", ",", "0", "0", "0">>
        /\ seconds_ms = 3661500 =>
               timestamp[2] = <<"0", "1", ":", "0", "1", ":", "0", "1", ",", "5", "0", "0">>

\* 1 h 1 min 1.5 s has been formatted.
C12_Witness ==
    /\ seconds_ms = 3661500
    /\ timestamp # <<>>
    /\ timestamp[1] = <<1, 1, 1, 500>>


\* ------------------------------------------------- response content, fences

\* The backquote character, written out.
Backquote == "backquote"

\* The fence marker: three backquotes.
Fence == <<Backquote, Backquote, Backquote>>

StartsWith(text, prefix) ==
    Len(text) >= Len(prefix) /\ SubSeq(text, 1, Len(prefix)) = prefix

EndsWith(text, suffix) ==
    /\ Len(text) >= Len(suffix)
    /\ SubSeq(text, Len(text) - Len(suffix) + 1, Len(text)) = suffix

RECURSIVE JoinChars(_)
\* "\n".join(lines), each line given as its characters
JoinChars(lines) ==
    IF lines = <<>> THEN <<>>
    ELSE IF Len(lines) = 1 THEN lines[1]
    ELSE lines[1] \o <<"\n">> \o JoinChars(Tail(lines))

\* The closing fence is left in the body.
strip_markdown_code_block_KeepsClosingFence(content) ==
    LET text == Strip(content)
    IN  IF ~StartsWith(text, Fence) THEN text
        ELSE Strip(JoinChars(Tail(SplitLines(text, <<>>))))

\* _strip_markdown_code_block(content)
strip_markdown_code_block(content) ==
    LET text == Strip(content)
    IN  IF ~StartsWith(text, Fence) THEN text
        ELSE LET lines == SplitLines(text, <<>>)
                 body == JoinChars(Tail(lines))
                 cut == RStrip(body)
             IN  IF EndsWith(cut, Fence)
                 THEN Strip(SubSeq(cut, 1, Len(cut) - 3))
                 ELSE Strip(body)

RECURSIVE ArrayItems(_, _)
\* n string elements, separated by sep
ArrayItems(n, sep) ==
    IF n = 0 THEN <<>>
    ELSE IF n = 1 THEN <<"\"", "a", "\"">>
    ELSE <<"\"", "a", "\"">> \o sep \o ArrayItems(n - 1, sep)

\* The text of a JSON array of n strings, on one line or one element a line.
ArrayText(n, sep) == <<"[">> \o ArrayItems(n, sep) \o <<"]">>

JsonArrays ==
    {ArrayText(n, sep) : n \in 0..MaxElements, sep \in {<<",", " ">>, <<",", "\n">>}}

\* The opening fence carries no language tag or the tag json; it is followed
\* by a line break, by nothing or by a space; the closing fence is on its own
\* line, directly after the array, or missing.
Fences ==
    [tag : {<<>>, <<"j", "s", "o", "n">>},
     break : {<<"\n">>, <<>>, <<" ">>},
     closing : {<<"\n">> \o Fence, Fence, <<>>}]

\* The content of a message that carries the array, bare or fenced.
Wrap(array, f) ==
    IF f = <<>> THEN array
    ELSE Fence \o f.tag \o f.break \o array \o f.closing

Paddings == {<<>>, <<" ">>, <<"\n">>}

InitStrip ==
    /\ json_text \in JsonArrays
    /\ fence \in Fences \cup {<<>>}
    /\ \E lead \in Paddings : \E trail \in Paddings :
           message_content = lead \o Wrap(json_text, fence) \o trail
    /\ stripped = <<>>
    /\ seconds_ms = 0
    /\ timestamp = <<>>
    /\ cues = <<>>
    /\ file_content = <<"none">>
    /\ parsed = <<"unread">>
    /\ pc = "idle"
    /\ srt_entries = <<>>
    /\ batch_size = 1
    /\ max_workers = 1
    /\ headers = <<>>
    /\ texts = <<>>
    /\ total_batches = 0
    /\ workers = 0
    /\ task = <<>>
    /\ progress_lock = 0
    /\ progress_counter = 0
    /\ progress_log = <<>>
    /\ batch_results = <<>>
    /\ output = <<>>
    /\ saved_file = NotSaved
    /\ attempt_failed = FALSE
    /\ TranscribeIdle
    /\ PipelineIdle

\* content = _strip_markdown_code_block(content), on the message content and
\* then once more on what it returned.
StripCodeBlock ==
    /\ Len(stripped) < 2
    /\ stripped' = Append(stripped, strip_markdown_code_block(
                       IF stripped = <<>> THEN message_content
                       ELSE stripped[Len(stripped)]))
    /\ UNCHANGED <<seconds_ms, timestamp, json_text, fence, message_content,
                   fvars, pvars, tvars, svars>>

NextStrip == StripCodeBlock

SpecStrip == InitStrip /\ [][NextStrip]_vars


\* ---------------------------------------------------------------- pipeline

\* A path is <<directory, piece, ...>>: the directory prefix and the pieces
\* the file name is the concatenation of ("film", ".mp4").  None is <<>>.
None == <<>>

\* The pieces os.path.splitext takes for an extension.
Extensions == {".srt", ".mp4", ".mkv", ".wav", ".en", ".zh", ".original", ".tmp"}

\* os.path.splitext(path): <<base, ext>>, ext being <<>> or one piece
splitext(path) ==
    IF Len(path) >= 3 /\ path[Len(path)] \in Extensions
    THEN <<SubSeq(path, 1, Len(path) - 1), <<path[Len(path)]>> >>
    ELSE <<path, <<>> >>

\* os.path.expanduser
expanduser(path) == IF path[1] = "~/" THEN <<"/home/">> \o Tail(path) ELSE path

\* os.path.abspath: a relative path is taken from the working directory
abspath(path) ==
    CASE path[1] = ""   -> <<"/cwd/">> \o Tail(path)
      [] path[1] = "~/" -> <<"/cwd/~/">> \o Tail(path)
      [] OTHER          -> path

\* os.path.exists
exists(path) == \E f \in disk : f[1] = abspath(path)

\* "." followed by the language code
DotLang(to) == IF to = "en" THEN ".en" ELSE ".zh"

AudioFile == <<"", "talk", ".wav">>

VideoFile == <<"", "film", ".mp4">>

SrtFile == <<"", "subs", ".srt">>

\* --output: none, "out.srt", "~/final.mkv", and "out" without extension
OutputPaths ==
    {None, <<"", "out", ".srt">>, <<"~/", "final", ".mkv">>, <<"", "out">>}

TaskParams ==
    [audio : {None, AudioFile}, video : {None, VideoFile}, srt : {None, SrtFile},
     lang : {"auto", "en"}, to : {"None", "en", "zh"}, output : OutputPaths,
     embed : BOOLEAN, translate_config : BOOLEAN, denoise : BOOLEAN]

Given(path) == path # None

\* sum(1 for x in [params.audio, params.video, params.srt] if x)
input_count(ps) ==
    (IF Given(ps.audio) THEN 1 ELSE 0) + (IF Given(ps.video) THEN 1 ELSE 0)
        + (IF Given(ps.srt) THEN 1 ELSE 0)

\* The pure embed is taken also when a translation target is given.
IsPureEmbed_IgnoresTarget(ps) == ps.embed /\ Given(ps.video) /\ Given(ps.srt)

\* params.embed and params.video and params.srt and not params.to
IsPureEmbed(ps) == ps.embed /\ Given(ps.video) /\ Given(ps.srt) /\ ps.to = "None"

\* The languages are compared when a subtitle is given instead of when none is.
SameLanguageError_OnlySrt(ps) ==
    IF ps.to # "None" /\ Given(ps.srt) /\ ps.to = ps.lang
    THEN <<"same_language">> ELSE <<>>

\* if params.to and not params.srt and params.to == params.lang
SameLanguageError(ps) ==
    IF ps.to # "None" /\ ~Given(ps.srt) /\ ps.to = ps.lang
    THEN <<"same_language">> ELSE <<>>

\* Every combination with a video is let through.
MultipleInputsError_VideoExempt(ps) ==
    IF input_count(ps) > 1 /\ ~Given(ps.video) THEN <<"multiple_inputs">> ELSE <<>>

\* if input_count > 1: is_translate_embed = embed and video and srt and not audio
MultipleInputsError(ps) ==
    IF input_count(ps) > 1
          /\ ~(ps.embed /\ Given(ps.video) /\ Given(ps.srt) /\ ~Given(ps.audio))
    THEN <<"multiple_inputs">> ELSE <<>>

\* validate_params: the error messages, in order
validate_params(ps) ==
    IF IsPureEmbed(ps)
    THEN IF ~Given(ps.audio) THEN <<>> ELSE <<"embed_with_audio">>
    ELSE IF input_count(ps) = 0 THEN <<"no_input">>
    ELSE (IF ps.embed /\ ~Given(ps.video) THEN <<"embed_needs_video">> ELSE <<>>)
         \o MultipleInputsError(ps)
         \o (IF Given(ps.srt) /\ ps.to = "None" THEN <<"srt_needs_to">> ELSE <<>>)
         \o SameLanguageError(ps)



\* The translation coordinator is not running.
TranslateIdle ==
    /\ pc = "idle"
    /\ srt_entries = <<>>
    /\ batch_size = 1
    /\ max_workers = 1
    /\ headers = <<>>
    /\ texts = <<>>
    /\ total_batches = 0
    /\ workers = 0
    /\ task = <<>>
    /\ progress_lock = 0
    /\ progress_counter = 0
    /\ progress_log = <<>>
    /\ batch_results = <<>>
    /\ output = <<>>
    /\ saved_file = NotSaved
    /\ attempt_failed = FALSE

\* The file written at path now holds content.
Put(files, path, content) ==
    {f \in files : f[1] # abspath(path)} \cup {<<abspath(path), content>>}

\* os.remove(path)
Remove(files, path) == {f \in files : f[1] # abspath(path)}

\* f"{base_name}_embed{ext}"
DefaultEmbed(video) == splitext(video)[1] \o <<"_embed">> \o splitext(video)[2]

\* f"{base}.tmp{video_ext}"
TempOutput(video) == splitext(video)[1] \o <<".tmp">> \o splitext(video)[2]

\* TaskResult()
NewResult == [success |-> FALSE, output_path |-> None, errors |-> <<>>]

\* The locals of run_task and of the stage it calls, before any is set, and
\* what the run has done so far.
NewRun ==
    [embed_output |-> None, srt_output |-> None, final_srt_path |-> None,
     original_path |-> None, translated_path |-> None,
     e_video |-> None, e_srt |-> None, e_auto |-> FALSE, embed_ret |-> "none",
     stage_end |-> "", decode |-> "none", transcribed |-> FALSE,
     writes |-> {}, raised |-> "", srt_removed |-> FALSE,
     mode |-> "", vocals |-> "none", audio_source |-> "", vad_threshold |-> 0,
     temp_dir |-> "none", vocal_temp_path |-> None]

InitPipeline ==
    /\ params \in TaskParams
    /\ p_pc = "call"
    /\ task_result = NewResult
    /\ \E present \in BOOLEAN, stale \in BOOLEAN :
          disk0 = {<<abspath(f), "input">> :
                      f \in IF present
                             THEN {params.audio, params.video, params.srt} \ {None}
                             ELSE {}}
                  \cup (IF stale /\ Given(params.video)
                        THEN {<<abspath(DefaultEmbed(params.video)), "stale">>}
                        ELSE {})
    /\ disk = disk0
    /\ started = {}
    /\ run = NewRun
    /\ TranslateIdle
    /\ TranscribeIdle
    /\ UtilsIdle

\* run_task continues although validate_params returned errors.
Validate_IgnoresErrors ==
    /\ p_pc = "call"
    /\ task_result' = [task_result EXCEPT !.errors = validate_params(params)]
    /\ p_pc' = "config"
    /\ UNCHANGED <<params, disk, disk0, started, run, tvars, svars, fvars, mvars>>

\* run_task, step 1: validate_params; its errors end the run
Validate ==
    /\ p_pc = "call"
    /\ IF validate_params(params) # <<>>
       THEN /\ task_result' = [task_result EXCEPT !.errors = validate_params(params)]
            /\ p_pc' = "returned"
       ELSE /\ p_pc' = "config"
            /\ UNCHANGED task_result
    /\ UNCHANGED <<params, disk, disk0, started, run, tvars, svars, fvars, mvars>>

\* What get_translate_config / check_translate_api do.
ApiChecks == {"ok", "RuntimeError", "Exception"}

\* run_task, step 2: prepare_translate_config, unless no translation is asked
\* for or the configuration is there already
PrepareTranslateConfig(check) ==
    /\ p_pc = "config"
    /\ IF params.to # "None" /\ ~params.translate_config
       THEN IF check = "ok"
            THEN /\ params' = [params EXCEPT !.translate_config = TRUE]
                 /\ p_pc' = "route"
                 /\ UNCHANGED task_result
            ELSE /\ task_result' = [task_result EXCEPT !.errors = <<check>>]
                 /\ p_pc' = "returned"
                 /\ UNCHANGED params
       ELSE /\ check = "ok"
            /\ p_pc' = "route"
            /\ UNCHANGED <<params, task_result>>
    /\ UNCHANGED <<disk, disk0, started, run, tvars, svars, fvars, mvars>>

\* The explicit output path is handed to the subtitle stage also when it
\* names the video.
SrtOutput_AlwaysExplicit(ps) == ps.output

\* srt_output = params.output; None if params.embed and params.output
SrtOutput(ps) == IF ps.embed /\ Given(ps.output) THEN None ELSE ps.output

\* embed_output = abspath(expanduser(params.output)) if params.embed and params.output
EmbedOutput(ps) ==
    IF ps.embed /\ Given(ps.output) THEN abspath(expanduser(ps.output)) ELSE None

\* run_task, steps 3 and 4: the meaning of output, and the stage to start
Route ==
    /\ p_pc = "route"
    /\ LET r == [run EXCEPT !.embed_output = EmbedOutput(params),
                             !.srt_output = SrtOutput(params)]
       IN  IF IsPureEmbed(params)
           THEN /\ started' = started \cup {"pure_embed"}
                /\ run' = [r EXCEPT !.e_video = params.video, !.e_srt = params.srt,
                                     !.e_auto = FALSE, !.mode = "PureEmbed"]
                /\ p_pc' = "embed"
           ELSE IF Given(params.srt)
           THEN /\ started' = started \cup {"translate"}
                /\ run' = [r EXCEPT !.mode = "TranslateExisting"]
                /\ p_pc' = "translate_file"
           ELSE /\ started' = started \cup {"transcribe"}
                /\ run' = [r EXCEPT !.mode = "Transcribe"]
                /\ p_pc' = "transcribe"
    /\ UNCHANGED <<params, task_result, disk, disk0, tvars, svars, fvars, mvars>>

\* except Exception as e: result.errors = [str(e)]
Failed(res, stage) == [res EXCEPT !.errors = <<stage>>]

\* What happens inside transcribe_with_vad.
TranscribeOutcomes ==
    {"no_ffmpeg", "vad_load_failed", "decode_failed", "no_speech", "no_cues",
     "exception", "interrupted", "cues"}

\* The outcomes that end transcribe_with_vad before the denoising step.
BeforeDenoise == {"no_ffmpeg", "vad_load_failed"}

\* What raises inside transcribe_with_vad: only the collaborators' own
\* exceptions; a failed decode returns None.
TranscribeRaises(outcome) == outcome = "exception"

\* What extract_vocals meets: the audio_separator import fails, the
\* separation fails or leaves no file, the user interrupts it, or the vocals
\* file is there.
VocalOutcomes == {"library_absent", "failed", "interrupted", "vocals"}

\* The vocals file in the directory tempfile.mkdtemp made.
VocalsFile == <<"/tmp/mlxvadsrt_vocals_/", "talk_(Vocals)", ".wav">>

\* The directory is left behind whatever vocal_temp_path is.
cleanup_vocal_temp_Never(r) == r

\* _cleanup_vocal_temp(vocal_temp_path): the directory of the vocals file is
\* removed if the path is set and the file is there.
cleanup_vocal_temp(r) ==
    IF Given(r.vocal_temp_path) /\ r.temp_dir = "present"
    THEN [r EXCEPT !.temp_dir = "removed"]
    ELSE r

\* transcribe_with_vad, step 2: extract_vocals(input_file) when denoise is
\* set.  extract_vocals makes its directory and, unless it returns the vocals
\* file, removes it in its finally clause; sys.exit comes before mkdtemp.
ExtractVocals(outcome) ==
    /\ p_pc = "transcribe"
    /\ params.denoise
    /\ run.vocals = "none"
    /\ exists(IF Given(params.audio) THEN params.audio ELSE params.video)
    /\ IF outcome = "library_absent"
       THEN /\ run' = [run EXCEPT !.vocals = "absent"]
            /\ p_pc' = "exited"
       ELSE IF outcome = "interrupted"
       THEN /\ run' = cleanup_vocal_temp(
                          [run EXCEPT !.vocals = "interrupted",
                                      !.temp_dir = "removed",
                                      !.raised = "interrupt"])
            /\ p_pc' = "interrupted"
       ELSE /\ run' = [run EXCEPT !.vocals = IF outcome = "vocals" THEN "extracted"
                                             ELSE "failed",
                                  !.audio_source = IF outcome = "vocals" THEN "vocals"
                                                   ELSE "original",
                                  !.temp_dir = IF outcome = "vocals" THEN "present"
                                               ELSE "removed",
                                  !.vocal_temp_path = IF outcome = "vocals"
                                                      THEN VocalsFile ELSE None]
            /\ p_pc' = "transcribe"
    /\ UNCHANGED <<params, task_result, disk, disk0, started, tvars, svars, fvars,
                   mvars>>

\* vad_threshold = VAD_THRESHOLD_DENOISE if (denoise and vocal_temp_path)
\*                 else VAD_THRESHOLD
VadThreshold(denoise, vocals) ==
    IF denoise /\ vocals = "extracted" THEN VAD_THRESHOLD_DENOISE ELSE VAD_THRESHOLD

\* transcribe_with_vad up to _save_and_translate; the finally clause runs
\* _cleanup_vocal_temp wherever the function ends.  KeyboardInterrupt is
\* re-raised and run_task, which catches Exception, lets it through.
TranscribeWithVad(outcome) ==
    /\ p_pc = "transcribe"
    /\ LET input_file == IF Given(params.audio) THEN params.audio ELSE params.video
           source == IF run.audio_source = "" THEN "original" ELSE run.audio_source
           threshold == VadThreshold(params.denoise, run.vocals)
           returns_none(why) ==
               /\ run' = cleanup_vocal_temp(
                         [run EXCEPT !.stage_end = why,
                              !.decode = IF why \in {"no_speech", "no_cues"} THEN "ok"
                                         ELSE IF why = "decode_failed" THEN "failed"
                                         ELSE "none",
                              !.transcribed = (why = "no_cues"),
                              !.audio_source =
                                  IF why \in {"decode_failed", "no_speech", "no_cues"}
                                  THEN source ELSE @,
                              !.vad_threshold =
                                  IF why \in {"no_speech", "no_cues"}
                                  THEN threshold ELSE @])
               /\ p_pc' = "main_done"
               /\ UNCHANGED task_result
       IN  /\ IF run.vocals # "none"
              THEN outcome \notin BeforeDenoise
              ELSE outcome \in BeforeDenoise \/ ~exists(input_file) \/ ~params.denoise
           /\ IF outcome = "no_ffmpeg"
              THEN /\ p_pc' = "exited"
                   /\ UNCHANGED <<run, task_result>>
              ELSE IF ~exists(input_file) THEN returns_none("missing_input")
              ELSE IF TranscribeRaises(outcome)
              THEN /\ task_result' = Failed(task_result, "transcribe")
                   /\ run' = cleanup_vocal_temp(
                             [run EXCEPT !.raised = "transcribe", !.decode = "ok",
                                  !.transcribed = TRUE, !.audio_source = source,
                                  !.vad_threshold = threshold])
                   /\ p_pc' = "returned"
              ELSE IF outcome = "interrupted"
              THEN /\ run' = cleanup_vocal_temp(
                             [run EXCEPT !.raised = "interrupt", !.decode = "ok",
                                  !.transcribed = TRUE, !.audio_source = source,
                                  !.vad_threshold = threshold])
                   /\ p_pc' = "interrupted"
                   /\ UNCHANGED task_result
              ELSE IF outcome # "cues" THEN returns_none(outcome)
              ELSE /\ run' = [run EXCEPT !.decode = "ok", !.transcribed = TRUE,
                                  !.audio_source = source,
                                  !.vad_threshold = threshold]
                   /\ p_pc' = "save"
                   /\ UNCHANGED task_result
    /\ UNCHANGED <<params, disk, disk0, started, tvars, svars, fvars, mvars>>

\* The untranslated cues are written to the explicit path itself.
OriginalPath_NoSuffix(input_file, out, to) ==
    IF Given(out) THEN abspath(expanduser(out))
    ELSE abspath(splitext(input_file)[1] \o <<".srt">>)

\* _save_and_translate: original_path
OriginalPath(input_file, out, to) ==
    LET output_path == IF Given(out) THEN abspath(expanduser(out))
                       ELSE abspath(splitext(input_file)[1] \o <<".srt">>)
    IN  IF to # "None" /\ Given(out)
        THEN splitext(output_path)[1] \o <<".original">> \o splitext(output_path)[2]
        ELSE output_path

\* The language code is not put before the extension.
TranslatedPath_NoLanguage(input_file, out, to) ==
    IF Given(out) THEN abspath(expanduser(out))
    ELSE abspath(splitext(input_file)[1] \o <<".srt">>)

\* _save_and_translate: translated_path (when to is given)
TranslatedPath(input_file, out, to) ==
    LET output_path == IF Given(out) THEN abspath(expanduser(out))
                       ELSE abspath(splitext(input_file)[1] \o <<".srt">>)
    IN  IF Given(out) THEN output_path
        ELSE splitext(output_path)[1] \o <<DotLang(to)>> \o splitext(output_path)[2]

\* What writing a file does.
WriteOutcomes == {"ok", "OSError"}

\* The untranslated cues are not written before the translation.
SaveOriginal_NotWritten(outcome) ==
    /\ p_pc = "save"
    /\ LET input_file == IF Given(params.audio) THEN params.audio ELSE params.video
           original == OriginalPath(input_file, run.srt_output, params.to)
           translated == IF params.to # "None"
                         THEN TranslatedPath(input_file, run.srt_output, params.to)
                         ELSE None
       IN  /\ LET r == [run EXCEPT !.original_path = original,
                             !.translated_path = translated,
                             !.final_srt_path =
                                 IF params.to # "None" THEN None ELSE original]
              IN  run' = IF params.to # "None" THEN r ELSE cleanup_vocal_temp(r)
           /\ p_pc' = IF params.to # "None" THEN "translate_cues" ELSE "main_done"
    /\ UNCHANGED <<params, task_result, disk, disk0, started, tvars, svars, fvars,
                   mvars>>

\* _save_and_translate up to the translation: the paths and _save_srt of
\* the untranslated cues
SaveOriginal(outcome) ==
    /\ p_pc = "save"
    /\ LET input_file == IF Given(params.audio) THEN params.audio ELSE params.video
           original == OriginalPath(input_file, run.srt_output, params.to)
           translated == IF params.to # "None"
                         THEN TranslatedPath(input_file, run.srt_output, params.to)
                         ELSE None
       IN  IF outcome = "OSError"
           THEN /\ task_result' = Failed(task_result, "transcribe")
                /\ run' = cleanup_vocal_temp([run EXCEPT !.raised = "transcribe"])
                /\ p_pc' = "returned"
                /\ UNCHANGED disk
           ELSE /\ disk' = Put(disk, original, "original")
                /\ LET r == [run EXCEPT !.original_path = original,
                                  !.translated_path = translated,
                                  !.writes = @ \cup {<<original, "original">>},
                                  !.final_srt_path =
                                      IF params.to # "None" THEN None ELSE original]
                   IN  run' = IF params.to # "None" THEN r ELSE cleanup_vocal_temp(r)
                /\ p_pc' = IF params.to # "None" THEN "translate_cues" ELSE "main_done"
                /\ UNCHANGED task_result
    /\ UNCHANGED <<params, disk0, started, tvars, svars, fvars, mvars>>

\* _save_and_translate: the call of _translate_and_save, which hands the
\* cues to translate_srt_entries
BeginTranslation ==
    /\ p_pc = "translate_cues"
    /\ started' = started \cup {"translate"}
    /\ p_pc' = "translating"
    /\ UNCHANGED <<params, task_result, disk, disk0, run, tvars, svars, fvars, mvars>>

\* _translate_and_save once translate_srt_entries has returned: _save_srt of
\* the translated cues, and the return of _save_and_translate
TranslateAndSave(outcome) ==
    /\ p_pc = "translating"
    /\ UNCHANGED started
    /\ IF outcome = "OSError"
       THEN /\ task_result' = Failed(task_result, "translate")
            /\ run' = cleanup_vocal_temp([run EXCEPT !.raised = "translate"])
            /\ p_pc' = "returned"
            /\ UNCHANGED disk
       ELSE /\ disk' = Put(disk, run.translated_path, "translated")
            /\ run' = cleanup_vocal_temp(
                      [run EXCEPT !.writes = @ \cup {<<run.translated_path, "translated">>},
                                  !.final_srt_path = run.translated_path])
            /\ p_pc' = "main_done"
            /\ UNCHANGED task_result
    /\ UNCHANGED <<params, disk0, tvars, svars, fvars, mvars>>

\* What translate_srt_file meets: a file with cues, an empty file, a write error.
TranslateFileOutcomes == {"ok", "empty", "OSError"}

\* translate_srt_file
TranslateSrtFile(outcome) ==
    /\ p_pc = "translate_file"
    /\ LET srt_path == abspath(params.srt)
           translated == IF Given(run.srt_output)
                         THEN abspath(expanduser(run.srt_output))
                         ELSE splitext(srt_path)[1] \o <<DotLang(params.to)>>
                                  \o splitext(srt_path)[2]
       IN  IF ~exists(srt_path) \/ outcome = "empty"
           THEN /\ run' = [run EXCEPT !.stage_end = "unparseable"]
                /\ p_pc' = "main_done"
                /\ UNCHANGED <<disk, task_result>>
           ELSE IF outcome = "OSError"
           THEN /\ task_result' = Failed(task_result, "translate")
                /\ run' = [run EXCEPT !.raised = "translate"]
                /\ p_pc' = "returned"
                /\ UNCHANGED disk
           ELSE /\ disk' = Put(disk, translated, "translated")
                /\ run' = [run EXCEPT !.translated_path = translated,
                               !.writes = @ \cup {<<translated, "translated">>},
                               !.final_srt_path = translated]
                /\ p_pc' = "main_done"
                /\ UNCHANGED task_result
    /\ UNCHANGED <<params, disk0, started, tvars, svars, fvars, mvars>>


\* run_task, after the subtitle stage: the subtitle path is the result, and
\* the auto embed starts if asked for and the subtitle is on disk
MainDone ==
    /\ p_pc = "main_done"
    /\ LET res == IF Given(run.final_srt_path)
                  THEN [task_result EXCEPT !.output_path = run.final_srt_path]
                  ELSE task_result
       IN  IF params.embed /\ Given(run.final_srt_path) /\ exists(run.final_srt_path)
           THEN /\ started' = started \cup {"auto_embed"}
                /\ run' = [run EXCEPT !.e_video = params.video,
                               !.e_srt = run.final_srt_path, !.e_auto = TRUE]
                /\ task_result' = res
                /\ p_pc' = "embed"
           ELSE /\ task_result' = [res EXCEPT !.success = TRUE]
                /\ p_pc' = "returned"
                /\ UNCHANGED <<started, run>>
    /\ UNCHANGED <<params, disk, disk0, tvars, svars, fvars, mvars>>

\* embed_subtitle up to the mux: check_dependencies (sys.exit without
\* ffmpeg) and the two files
EmbedStart(ffmpeg) ==
    /\ p_pc = "embed"
    /\ IF ~ffmpeg
       THEN /\ p_pc' = "exited"
            /\ UNCHANGED run
       ELSE IF ~exists(run.e_video) \/ ~exists(run.e_srt)
       THEN /\ run' = [run EXCEPT !.embed_ret = "False"]
            /\ p_pc' = "embedded"
       ELSE /\ p_pc' = "mux"
            /\ UNCHANGED run
    /\ UNCHANGED <<params, task_result, disk, disk0, started, tvars, svars, fvars, mvars>>

\* What the mux tool does.
MuxOutcomes == {"ok", "nonzero", "cannot_invoke"}

\* embed_subtitle: subprocess.run of the mux tool; a temporary output left
\* by a failed run is removed
Mux(outcome) ==
    /\ p_pc = "mux"
    /\ IF outcome = "ok"
       THEN /\ disk' = Put(disk, TempOutput(run.e_video), "muxed")
            /\ p_pc' = "replace"
            /\ UNCHANGED run
       ELSE /\ disk' = Remove(disk, TempOutput(run.e_video))
            /\ run' = [run EXCEPT !.embed_ret = "False"]
            /\ p_pc' = "embedded"
    /\ UNCHANGED <<params, task_result, disk0, started, tvars, svars, fvars, mvars>>

\* embed_subtitle: os.replace(temp_output, final_output)
Replace(outcome) ==
    /\ p_pc = "replace"
    /\ IF outcome = "OSError"
       THEN /\ run' = [run EXCEPT !.embed_ret = "False"]
            /\ p_pc' = "embedded"
            /\ UNCHANGED disk
       ELSE /\ disk' = Put(Remove(disk, TempOutput(run.e_video)),
                           DefaultEmbed(run.e_video), "muxed")
            /\ IF run.e_auto /\ exists(run.e_srt)
               THEN /\ p_pc' = "remove"
                    /\ UNCHANGED run
               ELSE /\ run' = [run EXCEPT !.embed_ret = "True"]
                    /\ p_pc' = "embedded"
    /\ UNCHANGED <<params, task_result, disk0, started, tvars, svars, fvars, mvars>>

\* The subtitle the user named is removed in place of the generated one.
RemoveSrt_RemovesInput(outcome) ==
    /\ p_pc = "remove"
    /\ IF outcome = "OSError"
       THEN /\ run' = [run EXCEPT !.embed_ret = "False"]
            /\ UNCHANGED disk
       ELSE /\ disk' = Remove(disk, IF Given(params.srt) THEN params.srt ELSE run.e_srt)
            /\ run' = [run EXCEPT !.embed_ret = "True", !.srt_removed = TRUE]
    /\ p_pc' = "embedded"
    /\ UNCHANGED <<params, task_result, disk0, started, tvars, svars, fvars, mvars>>

\* embed_subtitle: os.remove(srt_path) of a generated subtitle
RemoveSrt(outcome) ==
    /\ p_pc = "remove"
    /\ IF outcome = "OSError"
       THEN /\ run' = [run EXCEPT !.embed_ret = "False"]
            /\ UNCHANGED disk
       ELSE /\ disk' = Remove(disk, run.e_srt)
            /\ run' = [run EXCEPT !.embed_ret = "True", !.srt_removed = TRUE]
    /\ p_pc' = "embedded"
    /\ UNCHANGED <<params, task_result, disk0, started, tvars, svars, fvars, mvars>>

\* run_task after embed_subtitle, whose return value it does not look at:
\* _rename_if_needed(default_embed, embed_output), then success
AfterEmbed(outcome) ==
    /\ p_pc = "embedded"
    /\ LET default_path == DefaultEmbed(params.video)
           target_path == run.embed_output
       IN  IF ~Given(target_path) \/ ~exists(default_path)
           THEN /\ task_result' = [task_result EXCEPT !.output_path = default_path,
                                                      !.success = TRUE]
                /\ UNCHANGED <<disk, run>>
           ELSE IF outcome = "OSError"
           THEN /\ task_result' = Failed(task_result, "rename")
                /\ run' = [run EXCEPT !.raised = "rename"]
                /\ UNCHANGED disk
           ELSE /\ disk' = Put(Remove(disk, default_path), target_path, "muxed")
                /\ task_result' = [task_result EXCEPT !.output_path = target_path,
                                                      !.success = TRUE]
                /\ UNCHANGED run
    /\ p_pc' = "returned"
    /\ UNCHANGED <<params, disk0, started, tvars, svars, fvars, mvars>>

NextPipeline ==
    \/ Validate
    \/ \E check \in ApiChecks : PrepareTranslateConfig(check)
    \/ Route
    \/ \E outcome \in VocalOutcomes : ExtractVocals(outcome)
    \/ \E outcome \in TranscribeOutcomes : TranscribeWithVad(outcome)
    \/ \E outcome \in WriteOutcomes : SaveOriginal(outcome)
    \/ BeginTranslation
    \/ \E outcome \in WriteOutcomes : TranslateAndSave(outcome)
    \/ \E outcome \in TranslateFileOutcomes : TranslateSrtFile(outcome)
    \/ MainDone
    \/ \E ffmpeg \in BOOLEAN : EmbedStart(ffmpeg)
    \/ \E outcome \in MuxOutcomes : Mux(outcome)
    \/ \E outcome \in WriteOutcomes : Replace(outcome)
    \/ \E outcome \in WriteOutcomes : RemoveSrt(outcome)
    \/ \E outcome \in WriteOutcomes : AfterEmbed(outcome)

SpecPipeline == InitPipeline /\ [][NextPipeline]_vars


\* The messages validate_params can return.
ValidationErrors ==
    {"embed_with_audio", "no_input", "embed_needs_video", "multiple_inputs",
     "srt_needs_to", "same_language"}

\* run_task returned the errors of validate_params.
Rejected ==
    /\ p_pc = "returned"
    /\ task_result.errors # <<>>
    /\ \A k \in DOMAIN task_result.errors : task_result.errors[k] \in ValidationErrors

\* C13 (as stated): an error is reported whenever a translation target is
\* given and identical to the source language, whatever the input role.
C13_SameLanguageRejected ==
    (p_pc \notin {"idle", "call"} /\ params.to # "None" /\ params.to = params.lang)
        => Rejected

\* C13 (amended): an error is reported whenever a translation target is given,
\* no subtitle input is named and the target is identical to the source
\* language.
C13_SameLanguageRejectedWithoutSrt ==
    (p_pc \notin {"idle", "call"} /\ params.to # "None" /\ params.to = params.lang
        /\ ~Given(params.srt))
        => Rejected

\* A video alone, to be translated into its own language, was rejected for
\* that reason only.
C13_Witness ==
    /\ Rejected
    /\ Given(params.video) /\ ~Given(params.audio) /\ ~Given(params.srt)
    /\ params.to = "en" /\ params.lang = "en"
    /\ task_result.errors = <<"same_language">>

\* embed + video + subtitle without audio
IsEmbedCombination(ps) ==
    ps.embed /\ Given(ps.video) /\ Given(ps.srt) /\ ~Given(ps.audio)

\* C14: every parameter set naming more than one of audio, video, subtitle is
\* rejected, except embed + video + subtitle without audio, which validation
\* lets through; audio together with video or subtitle is always rejected.
C14_MultipleInputsRejected ==
    p_pc \notin {"idle", "call"} =>
        /\ (input_count(params) > 1 /\ ~IsEmbedCombination(params)) => Rejected
        /\ (Given(params.audio) /\ (Given(params.video) \/ Given(params.srt)))
               => Rejected
        /\ IsEmbedCombination(params) => ~Rejected

\* A video and a subtitle without embed were rejected, and so were an audio
\* and a video with embed.
C14_Witness ==
    /\ Rejected
    /\ Given(params.video) /\ Given(params.srt) /\ ~Given(params.audio)
    /\ ~params.embed /\ params.to = "en"
    /\ task_result.errors = <<"multiple_inputs">>

\* C15: when validate_params returns an error or the translation API check
\* fails, run_task returns success = false with the error messages, no stage
\* has been started and no file has been written.
C15_AbortBeforeAnyStage ==
    /\ (p_pc \notin {"idle", "call"} /\ validate_params(params) # <<>>) =>
           /\ p_pc = "returned"
           /\ ~task_result.success
           /\ task_result.errors = validate_params(params)
           /\ started = {}
           /\ disk = disk0
    /\ (p_pc # "idle" /\ task_result.errors # <<>>
            /\ task_result.errors[1] \in ApiChecks) =>
           /\ p_pc = "returned"
           /\ ~task_result.success
           /\ Len(task_result.errors) = 1
           /\ started = {}
           /\ disk = disk0

\* The API check failed for a valid request to transcribe and translate a video.
C15_Witness ==
    /\ p_pc = "returned"
    /\ validate_params(params) = <<>>
    /\ Given(params.video) /\ params.to = "zh"
    /\ task_result.errors = <<"RuntimeError">>
    /\ ~task_result.success
    /\ started = {}

\* transcribe_with_vad has saved the untranslated and the translated cues.
TranscribedAndTranslated ==
    /\ "transcribe" \in started
    /\ params.to # "None"
    /\ Given(run.final_srt_path)

\* C16: in transcribe mode with a translation target, an explicit subtitle
\* output path base.ext makes the untranslated cues go to base.original.ext
\* and the translated ones to base.ext ("out.srt", "en": "out.original.srt"
\* and "out.srt"); without an output path they go to <input base>.srt and
\* <input base>.<target>.srt.
C16_OutputPaths ==
    TranscribedAndTranslated =>
        LET o == run.srt_output
            input == IF Given(params.audio) THEN params.audio ELSE params.video
            dir(path) == IF path[1] = "~/" THEN "/home/"
                         ELSE IF path[1] = "" THEN "/cwd/" ELSE path[1]
        IN  /\ (Given(o) /\ Len(o) = 3 /\ o[3] \in {".srt", ".mkv"}) =>
                   run.writes = { << <<dir(o), o[2], ".original", o[3]>>, "original" >>,
                                  << <<dir(o), o[2], o[3]>>, "translated" >> }
            /\ (o = <<"", "out", ".srt">> /\ params.to = "en") =>
                   run.writes = { << <<"/cwd/", "out", ".original", ".srt">>, "original" >>,
                                  << <<"/cwd/", "out", ".srt">>, "translated" >> }
            /\ ~Given(o) =>
                   run.writes = { << <<"/cwd/", input[2], ".srt">>, "original" >>,
                                  << <<"/cwd/", input[2],
                                        IF params.to = "en" THEN ".en" ELSE ".zh",
                                        ".srt">>, "translated" >> }

\* An audio file was transcribed and translated to English with the output
\* path "out.srt".
C16_Witness ==
    /\ TranscribedAndTranslated
    /\ p_pc = "returned"
    /\ Given(params.audio)
    /\ run.srt_output = <<"", "out", ".srt">>
    /\ params.to = "en"
    /\ <<abspath(<<"", "out", ".original", ".srt">>), "original">> \in disk
    /\ <<abspath(<<"", "out", ".srt">>), "translated">> \in disk


\* The transcription or the translation stage has been started.
SubtitleStageStarted == started \cap {"transcribe", "translate"} # {}

\* The place the explicit output path names.
ExplicitOutputPlace ==
    IF params.output[1] = "~/" THEN <<"/home/">> \o Tail(params.output)
    ELSE IF params.output[1] = "" THEN <<"/cwd/">> \o Tail(params.output)
    ELSE params.output

\* C17: with embed and an explicit output path, no explicit path is passed to
\* the subtitle stage and, after a successful embed, the muxed video is at the
\* explicit output path, which is result.output_path; without embed the
\* explicit output path is passed unchanged to the subtitle stage.
C17_OutputMeaning ==
    /\ (SubtitleStageStarted /\ params.embed /\ Given(params.output)) =>
           /\ run.srt_output = None
           /\ \A w \in run.writes : w[1][2] # params.output[2]
    /\ (SubtitleStageStarted /\ ~params.embed) => run.srt_output = params.output
    /\ (p_pc = "returned" /\ params.embed /\ Given(params.output)
            /\ run.embed_ret = "True" /\ task_result.success) =>
           /\ <<ExplicitOutputPlace, "muxed">> \in disk
           /\ task_result.output_path = ExplicitOutputPlace

\* A video was transcribed and the subtitle embedded, with "~/final.mkv" as
\* the output path.
C17_Witness ==
    /\ p_pc = "returned"
    /\ params.embed /\ params.output = <<"~/", "final", ".mkv">>
    /\ "auto_embed" \in started
    /\ run.embed_ret = "True"
    /\ task_result.success
    /\ task_result.output_path = <<"/home/", "final", ".mkv">>
    /\ <<<<"/cwd/", "film", ".srt">>, "original">> \in run.writes

\* The embedding stage failed: embed_subtitle returned False, or the move of
\* the muxed video to the explicit output path raised.
EmbedFailed == run.embed_ret = "False" \/ run.raised = "rename"

\* C18: if the embedding stage fails, in pure embed or in auto embed,
\* run_task returns success = false with an error, and result.output_path
\* does not name a video that was never produced.
C18_EmbedFailureReported ==
    (p_pc = "returned" /\ EmbedFailed) =>
        /\ ~task_result.success
        /\ task_result.errors # <<>>
        /\ (Given(task_result.output_path)
               /\ task_result.output_path[Len(task_result.output_path)] \in {".mp4", ".mkv"})
               => \E f \in disk : f[1] = abspath(task_result.output_path) /\ f[2] = "muxed"

\* C19: if the auto embed fails after a subtitle file was produced, that file
\* is still on disk when run_task returns.
C19_SubtitleKept ==
    (p_pc = "returned" /\ "auto_embed" \in started /\ EmbedFailed) =>
        \E f \in disk : f[1] = abspath(run.final_srt_path)

\* C20: when the audio cannot be decoded, nothing is transcribed, translated
\* or embedded and run_task reports success = false.
C20_DecodeFailureFatal ==
    (p_pc = "returned" /\ run.decode = "failed") =>
        /\ ~run.transcribed
        /\ started = {"transcribe"}
        /\ ~task_result.success


\* The mode the dispatch rule assigns to a parameter set.
ModeOf(ps) ==
    IF ps.embed /\ ps.video # None /\ ps.srt # None /\ ps.to = "None"
    THEN "PureEmbed"
    ELSE IF ps.srt # None THEN "TranslateExisting"
    ELSE "Transcribe"

\* run_task went past the validation and the translation configuration.
Dispatched ==
    /\ p_pc \notin {"idle", "call", "config", "route"}
    /\ validate_params(params) = <<>>
    /\ ~(task_result.errors # <<>> /\ task_result.errors[1] \in ApiChecks)

\* C21: a run that passed the validation and the configuration step runs
\* exactly one mode: PureEmbed iff embed, video and subtitle are given
\* without a target, else TranslateExisting iff a subtitle is given, else
\* Transcribe; no mode runs otherwise. The auto embed never follows PureEmbed
\* and follows the other two only if embedding was asked for and the stage
\* returned the path of a subtitle it wrote.
C21_ModeSelection ==
    /\ p_pc # "idle" =>
          IF Dispatched
          THEN /\ run.mode = ModeOf(params)
               /\ ("pure_embed" \in started) = (run.mode = "PureEmbed")
               /\ ("transcribe" \in started) = (run.mode = "Transcribe")
               /\ run.mode = "TranslateExisting" => "translate" \in started
               /\ run.mode = "PureEmbed" => started = {"pure_embed"}
          ELSE run.mode = "" /\ started = {}
    /\ (p_pc # "idle" /\ "auto_embed" \in started) =>
          /\ run.mode \in {"Transcribe", "TranslateExisting"}
          /\ params.embed
          /\ Given(run.final_srt_path)
          /\ run.stage_end = "" /\ run.raised # "transcribe"
          /\ \E w \in run.writes : w[1] = run.final_srt_path

\* A subtitle was translated and then embedded; and a run that transcribed
\* with embedding asked for ended without the auto embed.
C21_Witness ==
    /\ p_pc = "returned"
    /\ run.mode = "TranslateExisting"
    /\ "auto_embed" \in started
    /\ params.embed /\ Given(params.video) /\ params.to = "zh"

\* C22: when denoising is asked for and the denoising library is absent or
\* the vocal extraction fails, the run is not ended by it: the audio decoded
\* is the original one and the detector runs with VAD_THRESHOLD.
C22_DenoiseFailureContinues ==
    (p_pc # "idle" /\ params.denoise /\ run.vocals \in {"absent", "failed"}) =>
        /\ p_pc = "exited" => "auto_embed" \in started
        /\ run.audio_source = "original"
        /\ run.vad_threshold \in {0, VAD_THRESHOLD}

\* C23: a batch whose retries are exhausted without a success returns, if an
\* array was ever obtained, a list of the batch's length with the most recent
\* array's elements below min(its length, the batch's length) and the
\* original texts in the remaining positions; and the original texts if no
\* array was ever obtained.
C23_ExhaustionPolicy ==
    \A b \in DOMAIN task :
        (LoopEnded(b) /\ ~task[b].success) =>
            LET batch == BatchOf(texts, b, batch_size)
                resp == task[b].last_response
                out == task[b].translated
            IN  /\ task[b].requests = TRANSLATE_MAX_RETRIES
                /\ IF task[b].got_result
                   THEN /\ Len(resp) # Len(batch)
                        /\ Len(out) = Len(batch)
                        /\ \A j \in 1..Len(batch) :
                              out[j] = IF j <= Min(Len(resp), Len(batch))
                                       THEN resp[j] ELSE batch[j]
                   ELSE out = batch

\* A batch of two texts is exhausted; its most recent array, of one element,
\* came before a request that failed outright.
C23_Witness ==
    \E b \in DOMAIN task :
        /\ LoopEnded(b)
        /\ ~task[b].success
        /\ task[b].got_result
        /\ ~task[b].malformed_only
        /\ Len(BatchOf(texts, b, batch_size)) = 2
        /\ Len(task[b].last_response) = 1

IsRequest(event) == event # "sleep"

\* The answers the call has received so far.
Answers == SelectSeq(task[1].trace, IsRequest)

\* The call is in its retry loop or just past it.
Following == task[1].pc \in {"attempt", "sleep", "ended", "lock"}

\* The response parses to an array of strings of the batch's length.
ArrayOfStrings(response, batch) ==
    /\ response \notin {"non_array", "error"}
    /\ LET array == ResponseArray(response, 1, batch, Len(batch))
       IN  /\ Len(array) = Len(batch)
           /\ \A j \in 1..Len(array) : IsString(array[j])

\* C24: an attempt is taken for successful only if its response is an array
\* of strings of the batch's length: the call has success set exactly when
\* its latest response is one.
C24_SuccessCriterion ==
    Following =>
        (task[1].success <=>
            (Answers # <<>> /\ ArrayOfStrings(Answers[Len(Answers)], texts)))

\* The response accepted: an array of the batch's length.
Accepted(response) ==
    /\ response \notin {"non_array", "error"}
    /\ Len(ResponseArray(response, 1, texts, Len(texts))) = Len(texts)

\* C25: a batch issues at most TRANSLATE_MAX_RETRIES requests and none after
\* an accepted response; a batch whose attempts all fail issues exactly that
\* many; the delay is taken between consecutive attempts, one per failed
\* attempt but the last.
C25_RetryBudget ==
    Following =>
        LET t == task[1]
            tr == t.trace
        IN  /\ t.requests = Len(Answers)
            /\ t.requests <= TRANSLATE_MAX_RETRIES
            /\ \A k \in 1..Len(tr) :
                  /\ (tr[k] = "sleep") = (k % 2 = 0)
                  /\ (IsRequest(tr[k]) /\ Accepted(tr[k])) => k = Len(tr)
            /\ t.sleeps = Len(tr) - Len(Answers)
            /\ t.success => (t.pc \in {"ended", "lock"} /\ Accepted(tr[Len(tr)]))
            /\ t.pc \in {"ended", "lock"} =>
                  /\ IsRequest(tr[Len(tr)])
                  /\ t.sleeps = t.requests - 1
                  /\ ~t.success => t.requests = TRANSLATE_MAX_RETRIES

\* The retry loop ended after TRANSLATE_MAX_RETRIES failed attempts.
C25_Witness ==
    /\ task[1].pc = "lock"
    /\ ~task[1].success
    /\ task[1].requests = TRANSLATE_MAX_RETRIES
    /\ task[1].sleeps = TRANSLATE_MAX_RETRIES - 1
    /\ Len(texts) = 2

\* C26: the batches are 1..ceil(N / B), each submitted once with its own
\* texts and collected at most once, and at most min(W, ceil(N / B)) of them
\* are being processed at any time.
C26_PoolBound ==
    pc \in {"pool", "returned", "saved"} =>
        LET N == Len(srt_entries)
            totalBatches == IF N % batch_size = 0 THEN N \div batch_size
                            ELSE N \div batch_size + 1
        IN  /\ total_batches = totalBatches
            /\ DOMAIN task = 1..totalBatches
            /\ Cardinality({b \in DOMAIN task : Active(b)})
                  <= Min(max_workers, totalBatches)
            /\ \A b \in DOMAIN task :
                  task[b].pc \in {"queued", "request"} =>
                      task[b].translated
                        = SubSeq(texts, (b - 1) * batch_size + 1,
                                 Min(b * batch_size, N))
            /\ Cardinality(Collected) = Len(batch_results)
            /\ Collected = {b \in DOMAIN task : task[b].pc = "collected"}

\* Two of three batches are being processed by the two threads of the pool
\* and the third waits.
C26_Witness ==
    /\ pc = "pool"
    /\ total_batches = 3
    /\ workers = 2
    /\ Cardinality({b \in DOMAIN task : Active(b)}) = 2
    /\ \E b \in DOMAIN task : task[b].pc = "queued"

\* C27: the values reported are 1, 2, ... up to the counter, in increasing
\* order and each once, the counter never exceeds the number of batches, and
\* it equals the number of batches when the coordinator returns.
C27_ProgressCounts ==
    /\ progress_log = [k \in 1..progress_counter |-> <<k, total_batches>>]
    /\ progress_counter <= total_batches
    /\ \A b \in DOMAIN task : task[b].pc \in {"locked", "done"} => progress_counter >= 1
    /\ Returned => progress_counter = total_batches

\* C28: the progress lock is held only by a worker whose retry loop has ended
\* and that has not returned yet; a worker in its retry loop does not hold
\* it, and can finish its requests while another worker holds it.
C28_LockOutsideRequests ==
    /\ progress_lock # 0 =>
          /\ progress_lock \in DOMAIN task
          /\ task[progress_lock].pc = "locked"
    /\ \A b \in DOMAIN task :
          /\ task[b].pc = "locked" => progress_lock = b
          /\ task[b].pc = "request" =>
                /\ progress_lock # b
                /\ ENABLED RunBatch(b, [k \in 1..TRANSLATE_MAX_RETRIES |-> "array_ok"])

\* One worker holds the lock while another is in its retry loop.
C28_Witness ==
    /\ progress_lock # 0
    /\ \E b \in DOMAIN task : b # progress_lock /\ task[b].pc = "request"

\* The segments the loop has reached: those done and the one in hand.
Reached == 1..(IF tr_pc \in {"chunks", "raised"} THEN seg_i + 1 ELSE seg_i)

\* C29: mlx_whisper.transcribe is called at most once per segment, in the
\* order of the segments, never for a segment whose chunk is near silent and
\* exactly once for every other segment the loop has reached.
C29_OneCallPerAudibleSegment ==
    tr_pc # "idle" =>
        /\ \A j, k \in 1..Len(calls) : j < k => calls[j] < calls[k]
        /\ {calls[k] : k \in 1..Len(calls)} = {i \in Reached : ~near_silent[i]}

\* Two segments, the first near silent: the loop has returned after one call,
\* for the second.
C29_Witness ==
    /\ tr_pc = "returned"
    /\ Len(speech_timestamps) = 2
    /\ near_silent[1] /\ ~near_silent[2]
    /\ calls = <<2>>

\* C30: a progress line follows the i-th segment whenever i is a multiple of
\* PROGRESS_INTERVAL and after the final segment, whether the segment was
\* skipped or produced cues: the lines printed are those of all such i among
\* the segments done, in order.
C30_ProgressEveryInterval ==
    tr_pc # "idle" =>
        LET total == Len(speech_timestamps)
            due == SelectSeq([i \in 1..seg_i |-> i],
                             LAMBDA i : i % PROGRESS_INTERVAL = 0 \/ i = total)
        IN  progress = [k \in 1..Len(due) |-> <<due[k], total>>]

\* C31: in transcribe mode with a target the untranslated cues are on disk
\* before the translation starts and stay there whatever the translation and
\* the steps after it do, and the translated file is written only once the
\* translation has been gone through.
C31_OriginalSavedFirst ==
    (p_pc # "idle" /\ run.mode = "Transcribe" /\ params.to # "None") =>
        /\ p_pc \in {"translate_cues", "translating"} =>
              /\ <<run.original_path, "original">> \in disk
              /\ \A w \in run.writes : w[2] # "translated"
        /\ "translate" \in started =>
              /\ Given(run.original_path)
              /\ <<run.original_path, "original">> \in disk
        /\ (\E w \in run.writes : w[2] = "translated") =>
              /\ "translate" \in started
              /\ p_pc \notin {"save", "translate_cues", "translating"}
              /\ run.translated_path # run.original_path

\* The translation failed after it had started; the untranslated file is there.
C31_Witness ==
    /\ p_pc = "returned"
    /\ run.mode = "Transcribe" /\ params.to = "zh"
    /\ run.raised = "translate"
    /\ <<run.original_path, "original">> \in disk
    /\ \A w \in run.writes : w[2] # "translated"

\* C32: when the transcription fails on a segment, the cues assembled from
\* the segments before it are written to the subtitle file.
C32_PartialCuesSaved ==
    (tr_pc = "raised" /\ entries # <<>>) => original_srt = entries

\* The opening fence, with its tag if any, is on a line of its own.
OwnLineFence == fence # <<>> /\ fence.break = <<"\n">>

\* The array begins on the line of the opening fence.
SameLineFence == fence # <<>> /\ fence.break # <<"\n">>

\* C33 as stated: for every JSON array text J, bare or fenced, with or without
\* a language tag, with the fence markers on their own lines or on the line
\* of J, _strip_markdown_code_block returns J; stripping again changes nothing.
C33_StripAnyFence ==
    stripped # <<>> =>
        /\ stripped[1] = Strip(json_text)
        /\ Len(stripped) = 2 => stripped[2] = stripped[1]

\* C33: _strip_markdown_code_block returns J when J is bare and when J is
\* fenced with the opening fence, with or without a language tag, on a line
\* of its own, whether the closing fence is on its own line, directly after
\* J or missing; when J begins on the line of the opening fence that whole
\* line is dropped and the result is not J; stripping again changes nothing.
C33_StripOwnLineFence ==
    stripped # <<>> =>
        /\ (fence = <<>> \/ OwnLineFence) => stripped[1] = Strip(json_text)
        /\ SameLineFence => stripped[1] # Strip(json_text)
        /\ Len(stripped) = 2 => stripped[2] = stripped[1]

\* A two-element array fenced with the tag json, both fences on their own
\* lines, has been stripped twice and came out bare.
C33_Witness ==
    /\ OwnLineFence
    /\ fence.tag # <<>>
    /\ fence.closing = <<"\n">> \o Fence
    /\ Len(json_text) > 2
    /\ Len(stripped) = 2
    /\ stripped[2] = json_text
    /\ message_content # json_text

\* C34: a chunk handed to the transcription is at unit peak when a denoising
\* variant is active, and is the chunk as sliced when none is.
C34_NormalizedIffDenoised ==
    \A k \in 1..Len(calls) :
        handed[k] = IF denoised THEN 1000 ELSE ChunkPeak(calls[k])

\* C35: on the same cue list, constants and answers of the service, the
\* concurrent translate_srt_entries ends as the sequential one does, with the
\* same list, under every interleaving of the workers and for every number
\* of cues from 0 on: it does not raise, every worker returns for its batch
\* what the sequential loop appends to translated_texts, and the list
\* returned holds the batches' results in batch order.
C35_SameAsSequential ==
    /\ pc # "raised"
    /\ \A b \in DOMAIN task :
          task[b].pc \in {"lock", "locked", "done"} =>
              task[b].translated = task[b].sequential
    /\ pc \in {"returned", "saved"} =>
          output = ZipEntries(headers, ExtendAll(batch_results, 1, total_batches))

\* translate_srt_entries has returned or raised.
Terminated == pc \in {"raised", "returned", "saved"}

\* A submitted batch is complete: its worker returned or died.
Completed(b) == task[b].pc \in {"done", "exception", "collected"}

\* C36: when every request ends, translate_srt_entries terminates under every
\* interleaving and failure pattern; every submitted batch completes; the
\* progress lock, once taken, is released, also when the progress line
\* raises; no worker waits on the lock for ever.
C36_Terminates ==
    /\ <>Terminated
    /\ [](progress_lock # 0 => <>(progress_lock = 0))
    /\ \A b \in 1..MaxEntries :
          [](b \in DOMAIN task => <>(b \in DOMAIN task /\ Completed(b)))

\* The call has returned although, of two batches submitted, one was never
\* counted: a print of its worker raised.
C36_Witness ==
    /\ pc = "returned"
    /\ Len(task) >= 2
    /\ progress_counter < total_batches
    /\ progress_lock = 0

\* C37: with a translation target, the path of the untranslated subtitle and
\* the path of the translated one differ, and writing the second leaves the
\* first as it was: in transcribe mode for every input and output path, and
\* when translating an existing subtitle file without an output path.
C37_PathsDiffer ==
    /\ (run.mode = "Transcribe" /\ params.to # "None" /\ Given(run.original_path)) =>
          /\ run.original_path # run.translated_path
          /\ (\E w \in run.writes : w[2] = "translated") =>
                /\ <<run.original_path, "original">> \in disk
                /\ <<run.translated_path, "original">> \notin run.writes
    /\ (run.mode = "TranslateExisting" /\ ~Given(run.srt_output)
           /\ Given(run.translated_path)) =>
          /\ run.translated_path # abspath(params.srt)
          /\ <<abspath(params.srt), "input">> \in disk

\* Speech was transcribed and translated without an output path: talk.srt and
\* talk.zh.srt are both on disk.
C37_Witness ==
    /\ run.mode = "Transcribe" /\ params.to = "zh" /\ ~Given(params.output)
    /\ run.original_path = <<"/cwd/", "talk", ".srt">>
    /\ run.translated_path = <<"/cwd/", "talk", ".zh", ".srt">>
    /\ <<run.original_path, "original">> \in disk
    /\ <<run.translated_path, "translated">> \in disk

\* C38: a subtitle file the user named as input stays on disk in every mode;
\* the subtitle embed_subtitle removes was written by this run, is not the
\* user's file, and is removed only once the video with the subtitle is in
\* place.
C38_InputSubtitleKept ==
    /\ (Given(params.srt) /\ <<abspath(params.srt), "input">> \in disk0) =>
          exists(params.srt)
    /\ run.srt_removed =>
          /\ run.e_auto
          /\ Given(params.srt) => abspath(run.e_srt) # abspath(params.srt)
          /\ \E w \in run.writes : w[1] = abspath(run.e_srt)
          /\ \E f \in disk : f[2] = "muxed" /\ f[1] # abspath(TempOutput(params.video))

\* subs.srt was translated and the translation embedded: subs.zh.srt is
\* gone, subs.srt is there.
C38_Witness ==
    /\ run.mode = "TranslateExisting"
    /\ params.to = "zh"
    /\ run.srt_removed
    /\ p_pc = "returned"
    /\ <<abspath(SrtFile), "input">> \in disk
    /\ ~exists(run.e_srt)

\* transcribe_with_vad is running.
InTranscribe == p_pc \in {"transcribe", "save", "translate_cues", "translating"}

\* C39: once transcribe_with_vad has ended, by a return, an exception or an
\* interruption, the directory of the extracted vocals is not there; and when
\* the extraction fails or is interrupted, its directory is gone when
\* extract_vocals ends.
C39_VocalsDirRemoved ==
    /\ ~InTranscribe => run.temp_dir # "present"
    /\ run.vocals \in {"failed", "interrupted"} => run.temp_dir = "removed"
    /\ run.vocals \in {"none", "absent"} => run.temp_dir = "none"

\* The vocals were extracted, the translation raised, and the directory is
\* gone.
C39_Witness ==
    /\ run.vocals = "extracted"
    /\ run.raised = "translate"
    /\ p_pc = "returned"
    /\ Given(run.vocal_temp_path)
    /\ run.temp_dir = "removed"

====
